---- MODULE Spec2Model ----
(***************************************************************************)
(* The markdown <-> document-tree conversion of                            *)
(* src/src/services/editor/SimpleMarkdownService.ts over the schema of     *)
(* SimpleEditorSchema (src/unnamed/part_002).                              *)
(*                                                                         *)
(* A string is a sequence of atoms.  An atom is one character, or one      *)
(* piece of markup that no regular expression of the service can split     *)
(* (a generated tag, the opening of an href attribute, a script tag).     *)
(* Markup atoms hold none of the characters the service's patterns look    *)
(* for, so every pattern sees them as one ordinary character.             *)
(***************************************************************************)
EXTENDS Integers, Sequences, FiniteSets, TLC

\* ------------------------------------------------------------------------
\* String primitives of the JavaScript runtime, on atom sequences
\* ------------------------------------------------------------------------

\* \s of the patterns and the characters String.prototype.trim removes
IsWs(c) == c = " " \/ c = "\n"

\* \d of the patterns
IsDigit(c) == c \in {"0", "1", "2", "3", "4", "5", "6", "7", "8", "9"}

\* the first index >= i of s that holds no white space (Len(s)+1 when none)
RECURSIVE SkipWs(_, _)
SkipWs(s, i) == IF i <= Len(s) /\ IsWs(s[i]) THEN SkipWs(s, i + 1) ELSE i

\* the last index <= i of s that holds no white space (0 when none)
RECURSIVE LastNonWs(_, _)
LastNonWs(s, i) == IF i >= 1 /\ IsWs(s[i]) THEN LastNonWs(s, i - 1) ELSE i

\* the first index >= i of s that holds no digit
RECURSIVE SkipDigits(_, _)
SkipDigits(s, i) == IF i <= Len(s) /\ IsDigit(s[i]) THEN SkipDigits(s, i + 1) ELSE i

\* the first index >= i of s that holds c (Len(s)+1 when none): indexOf
RECURSIVE IndexFrom(_, _, _)
IndexFrom(s, c, i) ==
  IF i > Len(s) THEN Len(s) + 1
  ELSE IF s[i] = c THEN i ELSE IndexFrom(s, c, i + 1)

\* the first index >= i of s where c stands twice in a row
RECURSIVE IndexPairFrom(_, _, _)
IndexPairFrom(s, c, i) ==
  IF i + 1 > Len(s) THEN Len(s) + 1
  ELSE IF s[i] = c /\ s[i + 1] = c THEN i ELSE IndexPairFrom(s, c, i + 1)

Slice(s, from, to) == IF from > to THEN <<>> ELSE SubSeq(s, from, to)

Trim(s) == Slice(s, SkipWs(s, 1), LastNonWs(s, Len(s)))

TrimEnd(s) == Slice(s, 1, LastNonWs(s, Len(s)))

\* s.split('\n')
RECURSIVE Split(_)
Split(s) ==
  LET j == IndexFrom(s, "\n", 1)
  IN IF j > Len(s) THEN <<s>>
     ELSE <<Slice(s, 1, j - 1)>> \o Split(Slice(s, j + 1, Len(s)))

\* lines.join('\n')
RECURSIVE Join(_)
Join(lines) ==
  IF lines = <<>> THEN <<>>
  ELSE IF Len(lines) = 1 THEN lines[1]
  ELSE lines[1] \o <<"\n">> \o Join(Tail(lines))

\* c repeated n times
RECURSIVE Repeat(_, _)
Repeat(c, n) == IF n <= 0 THEN <<>> ELSE <<c>> \o Repeat(c, n - 1)

\* the number of leading c of s
RECURSIVE CountLead(_, _)
CountLead(s, c) ==
  IF s # <<>> /\ Head(s) = c THEN 1 + CountLead(Tail(s), c) ELSE 0

\* the atom of the backtick character (U+0060), which a TLA+ string cannot hold
Backtick == "backtick"

\* s.startsWith('```')
StartsWithFence(s) ==
  Len(s) >= 3 /\ s[1] = Backtick /\ s[2] = Backtick /\ s[3] = Backtick

\* ------------------------------------------------------------------------
\* The line patterns of parseMarkdown: each gives the length of the prefix
\* of the trimmed line that the pattern matches, 0 when it does not match
\* ------------------------------------------------------------------------

\* /^#{1,6}\s+/
MatchHeading(t) ==
  LET n == CountLead(t, "#")
  IN IF n >= 1 /\ n <= 6 /\ n < Len(t) /\ IsWs(t[n + 1])
     THEN SkipWs(t, n + 1) - 1 ELSE 0

\* the level taken from the fallback of `match ? match[0].length : 1`
HeadingLevelFallback(t) == 1

\* trimmedLine.match(/^#{1,6}/): match ? match[0].length : 1
HeadingLevel(t) ==
  LET n == CountLead(t, "#")
  IN IF n = 0 THEN 1 ELSE IF n > 6 THEN 6 ELSE n

\* /^```/
MatchFence(t) == IF StartsWithFence(t) THEN 3 ELSE 0

\* /^-\s*\[\s*\]\s+/
MatchTaskUnchecked(t) ==
  IF Len(t) >= 1 /\ t[1] = "-"
  THEN LET i == SkipWs(t, 2)
       IN IF i <= Len(t) /\ t[i] = "["
          THEN LET j == SkipWs(t, i + 1)
               IN IF j < Len(t) /\ t[j] = "]" /\ IsWs(t[j + 1])
                  THEN SkipWs(t, j + 1) - 1 ELSE 0
          ELSE 0
  ELSE 0

\* /^-\s*\[x\]\s+/ without the i flag
MatchTaskCheckedCaseSensitive(t) ==
  IF Len(t) >= 1 /\ t[1] = "-"
  THEN LET i == SkipWs(t, 2)
       IN IF i + 2 < Len(t) /\ t[i] = "[" /\ t[i + 1] = "x"
             /\ t[i + 2] = "]" /\ IsWs(t[i + 3])
          THEN SkipWs(t, i + 3) - 1 ELSE 0
  ELSE 0

\* /^-\s*\[x\]\s+/i
MatchTaskChecked(t) ==
  IF Len(t) >= 1 /\ t[1] = "-"
  THEN LET i == SkipWs(t, 2)
       IN IF i + 2 < Len(t) /\ t[i] = "[" /\ t[i + 1] \in {"x", "X"}
             /\ t[i + 2] = "]" /\ IsWs(t[i + 3])
          THEN SkipWs(t, i + 3) - 1 ELSE 0
  ELSE 0

\* /^\s*\d+\.\s+/
MatchOrdered(t) ==
  LET i == SkipWs(t, 1)
      d == SkipDigits(t, i)
  IN IF d > i /\ d < Len(t) /\ t[d] = "." /\ IsWs(t[d + 1])
     THEN SkipWs(t, d + 1) - 1 ELSE 0

\* /^\s*[-*+]\s+/
MatchUnordered(t) ==
  LET i == SkipWs(t, 1)
  IN IF i < Len(t) /\ t[i] \in {"-", "*", "+"} /\ IsWs(t[i + 1])
     THEN SkipWs(t, i + 1) - 1 ELSE 0

\* /^>\s+/
MatchBlockquote(t) ==
  IF Len(t) >= 2 /\ t[1] = ">" /\ IsWs(t[2]) THEN SkipWs(t, 2) - 1 ELSE 0

\* /^---+$/
MatchHr(t) ==
  IF Len(t) >= 3 /\ \A i \in 1..Len(t) : t[i] = "-" THEN Len(t) ELSE 0

\* trimmedLine.replace(pattern, '') for a pattern that matched m atoms
AfterMatch(t, m) == Slice(t, m + 1, Len(t))

\* ------------------------------------------------------------------------
\* processInlineMarkdown: six global replacements, in the order of the source
\* ------------------------------------------------------------------------

AHref == "<a href=\""
AttrEnd == "\">"

\* .replace(/\[([^\]]+)\]\(([^)]+)\)/g, '<a href="$2">$1</a>')
RECURSIVE ReplaceLinks(_, _)
ReplaceLinks(s, i) ==
  IF i > Len(s) THEN <<>>
  ELSE LET j == IndexFrom(s, "]", i + 1)
           k == IndexFrom(s, ")", j + 2)
       IN IF s[i] = "[" /\ j > i + 1 /\ j < Len(s) /\ s[j + 1] = "("
             /\ k > j + 2 /\ k <= Len(s)
          THEN <<AHref>> \o Slice(s, j + 2, k - 1) \o <<AttrEnd>>
               \o Slice(s, i + 1, j - 1) \o <<"</a>">> \o ReplaceLinks(s, k + 1)
          ELSE <<s[i]>> \o ReplaceLinks(s, i + 1)

\* .replace(/\*\*(.*?)\*\*/g, '<strong>$1</strong>'), and the same with __
RECURSIVE ReplaceStrong(_, _, _)
ReplaceStrong(s, d, i) ==
  IF i > Len(s) THEN <<>>
  ELSE LET j == IndexPairFrom(s, d, i + 2)
       IN IF i < Len(s) /\ s[i] = d /\ s[i + 1] = d /\ j <= Len(s)
          THEN <<"<strong>">> \o Slice(s, i + 2, j - 1) \o <<"</strong>">>
               \o ReplaceStrong(s, d, j + 2)
          ELSE <<s[i]>> \o ReplaceStrong(s, d, i + 1)

\* .replace(/(?<!\*)\*([^*]+)\*(?!\*)/g, '<em>$1</em>'), and the same with _
RECURSIVE ReplaceEm(_, _, _)
ReplaceEm(s, d, i) ==
  IF i > Len(s) THEN <<>>
  ELSE LET j == IndexFrom(s, d, i + 1)
       IN IF s[i] = d /\ (i = 1 \/ s[i - 1] # d)
             /\ j > i + 1 /\ j <= Len(s) /\ (j = Len(s) \/ s[j + 1] # d)
          THEN <<"<em>">> \o Slice(s, i + 1, j - 1) \o <<"</em>">>
               \o ReplaceEm(s, d, j + 1)
          ELSE <<s[i]>> \o ReplaceEm(s, d, i + 1)

\* .replace(/`(.*?)`/g, '<code>$1</code>')
RECURSIVE ReplaceCode(_, _)
ReplaceCode(s, i) ==
  IF i > Len(s) THEN <<>>
  ELSE LET j == IndexFrom(s, Backtick, i + 1)
       IN IF s[i] = Backtick /\ j <= Len(s)
          THEN <<"<code>">> \o Slice(s, i + 1, j - 1) \o <<"</code>">>
               \o ReplaceCode(s, j + 1)
          ELSE <<s[i]>> \o ReplaceCode(s, i + 1)

processInlineMarkdown(text) ==
  ReplaceCode(
    ReplaceEm(
      ReplaceStrong(
        ReplaceEm(
          ReplaceStrong(ReplaceLinks(text, 1), "*", 1),
          "*", 1),
        "_", 1),
      "_", 1),
    1)

\* ------------------------------------------------------------------------
\* parseMarkdown, lines 51-105: the markup built from the lines.  The markup
\* is a sequence of elements, one per `html +=`; an element's inner markup
\* stays a string (inner) until the HTML parser reads it.
\* ------------------------------------------------------------------------

Attr(name, value) == [name |-> name, value |-> value]

Element(tag, attrs, kids, inner) ==
  [tag |-> tag, attrs |-> attrs, kids |-> kids, inner |-> inner]

HeadingTag(level) ==
  CASE level = 1 -> "h1" [] level = 2 -> "h2" [] level = 3 -> "h3"
    [] level = 4 -> "h4" [] level = 5 -> "h5" [] OTHER -> "h6"

\* the chain with the unordered-list branch ahead of the task branches
ClassifyLineListFirst(trimmedLine) ==
  IF trimmedLine = <<>> THEN "blank"
  ELSE IF MatchHeading(trimmedLine) > 0 THEN "heading"
  ELSE IF MatchFence(trimmedLine) > 0 THEN "fence"
  ELSE IF MatchOrdered(trimmedLine) > 0 THEN "ordered"
  ELSE IF MatchUnordered(trimmedLine) > 0 THEN "unordered"
  ELSE IF MatchTaskUnchecked(trimmedLine) > 0 THEN "task_unchecked"
  ELSE IF MatchTaskChecked(trimmedLine) > 0 THEN "task_checked"
  ELSE IF MatchBlockquote(trimmedLine) > 0 THEN "blockquote"
  ELSE IF MatchHr(trimmedLine) > 0 THEN "hr"
  ELSE "paragraph"

\* the rule that takes a line, by the if/else chain of lines 58-104
ClassifyLine(trimmedLine) ==
  IF trimmedLine = <<>> THEN "blank"
  ELSE IF MatchHeading(trimmedLine) > 0 THEN "heading"
  ELSE IF MatchFence(trimmedLine) > 0 THEN "fence"
  ELSE IF MatchTaskUnchecked(trimmedLine) > 0 THEN "task_unchecked"
  ELSE IF MatchTaskChecked(trimmedLine) > 0 THEN "task_checked"
  ELSE IF MatchOrdered(trimmedLine) > 0 THEN "ordered"
  ELSE IF MatchUnordered(trimmedLine) > 0 THEN "unordered"
  ELSE IF MatchBlockquote(trimmedLine) > 0 THEN "blockquote"
  ELSE IF MatchHr(trimmedLine) > 0 THEN "hr"
  ELSE "paragraph"

\* the first index >= i of a line that starts, trimmed, with a fence
\* (Len(lines)+1 when none): the while loop of lines 72-75
RECURSIVE FenceEnd(_, _)
FenceEnd(lines, i) ==
  IF i > Len(lines) THEN i
  ELSE IF StartsWithFence(Trim(lines[i])) THEN i ELSE FenceEnd(lines, i + 1)

\* lines 69-77: the <pre> element of a fenced block opened on line i
FenceElement(lines, i) ==
  LET lang == AfterMatch(Trim(lines[i]), 3)
      codeLines == Slice(lines, i + 1, FenceEnd(lines, i + 1) - 1)
  IN Element("pre",
             IF lang # <<>> THEN <<Attr("data-language", lang)>> ELSE <<>>,
             <<>>,
             <<"<code>">> \o Join(codeLines) \o <<"</code>">>)

TaskItemAttrs(checked) ==
  << Attr("data-type", <<"taskItem">>),
     Attr("data-checked", IF checked THEN <<"true">> ELSE <<"false">>),
     Attr("class", IF checked THEN <<"task-item-checked">>
                              ELSE <<"task-item-unchecked">>) >>

\* lines 58-104 for one line outside a fenced block
LineElement(line) ==
  LET t == Trim(line)
      rule == ClassifyLine(t)
  IN CASE rule = "blank" -> Element("p", <<>>, <<>>, <<>>)
       [] rule = "heading" ->
            Element(HeadingTag(HeadingLevel(t)), <<>>, <<>>,
                    processInlineMarkdown(AfterMatch(t, MatchHeading(t))))
       [] rule = "task_unchecked" ->
            Element("ul", <<Attr("data-type", <<"taskList">>)>>,
                    <<Element("li", TaskItemAttrs(FALSE), <<>>,
                        processInlineMarkdown(AfterMatch(t, MatchTaskUnchecked(t))))>>,
                    <<>>)
       [] rule = "task_checked" ->
            Element("ul", <<Attr("data-type", <<"taskList">>)>>,
                    <<Element("li", TaskItemAttrs(TRUE), <<>>,
                        processInlineMarkdown(AfterMatch(t, MatchTaskChecked(t))))>>,
                    <<>>)
       [] rule = "ordered" ->
            Element("ol", <<>>,
                    <<Element("li", <<>>, <<>>,
                        processInlineMarkdown(AfterMatch(t, MatchOrdered(t))))>>,
                    <<>>)
       [] rule = "unordered" ->
            Element("ul", <<>>,
                    <<Element("li", <<>>, <<>>,
                        processInlineMarkdown(AfterMatch(t, MatchUnordered(t))))>>,
                    <<>>)
       [] rule = "blockquote" ->
            Element("blockquote", <<>>, <<>>,
                    processInlineMarkdown(AfterMatch(t, MatchBlockquote(t))))
       [] rule = "hr" -> Element("hr", <<>>, <<>>, <<>>)
       [] OTHER -> Element("p", <<>>, <<>>, processInlineMarkdown(line))

\* the for loop of lines 54-105, from line i on
RECURSIVE BuildHtml(_, _)
BuildHtml(lines, i) ==
  IF i > Len(lines) THEN <<>>
  ELSE IF ClassifyLine(Trim(lines[i])) = "fence"
       THEN <<FenceElement(lines, i)>>
            \o BuildHtml(lines, FenceEnd(lines, i + 1) + 1)
       ELSE <<LineElement(lines[i])>> \o BuildHtml(lines, i + 1)

\* ------------------------------------------------------------------------
\* The HTML parser that DOMPurify.sanitize (line 108) and innerHTML (line
\* 114) run on the markup.  No atom of an inner string opens or closes a
\* block element, so the parser keeps the elements as built and reads each
\* inner string into leaves: one leaf per character of text (or per script
\* element), under the inline elements open around it (wraps, outermost
\* first).
\* ------------------------------------------------------------------------

Wrap(tag, attrs) == [tag |-> tag, attrs |-> attrs]

Leaf(kind, c, body, wraps) == [kind |-> kind, c |-> c, body |-> body, wraps |-> wraps]

\* the start tags an inner string can hold, beside <a href="..."> and <script>
OpenTag(a) ==
  CASE a = "<strong>" -> Wrap("strong", <<>>)
    [] a = "<em>" -> Wrap("em", <<>>)
    [] a = "<code>" -> Wrap("code", <<>>)
    [] a = "<b>" -> Wrap("b", <<>>)
    [] a = "<span class=\"c\">" -> Wrap("span", <<Attr("class", <<"c">>)>>)
    [] a = "<em onclick=\"x\">" -> Wrap("em", <<Attr("onclick", <<"x">>)>>)
    [] a = "<em title=\"t\">" -> Wrap("em", <<Attr("title", <<"t">>)>>)
    [] a = "<em data-x=\"1\">" -> Wrap("em", <<Attr("data-x", <<"1">>)>>)
    [] a = "<em aria-label=\"l\">" -> Wrap("em", <<Attr("aria-label", <<"l">>)>>)
    [] a = "<em class=\"c\">" -> Wrap("em", <<Attr("class", <<"c">>)>>)

OpenTagAtoms ==
  {"<strong>", "<em>", "<code>", "<b>", "<span class=\"c\">", "<em onclick=\"x\">",
   "<em title=\"t\">", "<em data-x=\"1\">", "<em aria-label=\"l\">", "<em class=\"c\">"}

\* the end tags an inner string can hold
CloseTag(a) ==
  CASE a = "</strong>" -> "strong"
    [] a = "</em>" -> "em"
    [] a = "</code>" -> "code"
    [] a = "</a>" -> "a"
    [] a = "</b>" -> "b"
    [] a = "</span>" -> "span"
    [] a = "</script>" -> "script"

CloseTagAtoms == {"</strong>", "</em>", "</code>", "</a>", "</b>", "</span>", "</script>"}

\* the open inline elements without the innermost one named tag: an end tag
\* closes that element, and the elements opened after it are reopened around
\* the text that follows (the formatting elements of the HTML tree builder)
RECURSIVE CloseInnermost(_, _)
CloseInnermost(active, tag) ==
  IF active = <<>> THEN <<>>
  ELSE IF active[Len(active)].tag = tag THEN SubSeq(active, 1, Len(active) - 1)
  ELSE Append(CloseInnermost(SubSeq(active, 1, Len(active) - 1), tag),
              active[Len(active)])

RECURSIVE InlineParse(_, _, _)
InlineParse(s, i, active) ==
  IF i > Len(s) THEN <<>>
  ELSE IF s[i] = "<script>"
  THEN \* script data: everything up to the end tag (or the end) is its text
       LET j == IndexFrom(s, "</script>", i + 1)
       IN <<Leaf("script", s[i], Slice(s, i + 1, j - 1), active)>>
          \o InlineParse(s, j + 1, active)
  ELSE IF s[i] = AHref
  THEN \* a double-quoted attribute value runs to the closing quote
       LET j == IndexFrom(s, AttrEnd, i + 1)
       IN InlineParse(s, j + 1,
            Append(CloseInnermost(active, "a"),
                   Wrap("a", <<Attr("href", Slice(s, i + 1, j - 1))>>)))
  ELSE IF s[i] \in OpenTagAtoms
  THEN InlineParse(s, i + 1, Append(active, OpenTag(s[i])))
  ELSE IF s[i] \in CloseTagAtoms
  THEN InlineParse(s, i + 1, CloseInnermost(active, CloseTag(s[i])))
  ELSE <<Leaf("text", s[i], <<>>, active)>> \o InlineParse(s, i + 1, active)

DomElement(tag, attrs, kids, leaves) ==
  [tag |-> tag, attrs |-> attrs, kids |-> kids, leaves |-> leaves]

RECURSIVE ParseHtml(_)
ParseHtml(html) ==
  IF html = <<>> THEN <<>>
  ELSE LET e == Head(html)
       IN <<DomElement(e.tag, e.attrs, ParseHtml(e.kids), InlineParse(e.inner, 1, <<>>))>>
          \o ParseHtml(Tail(html))

\* ------------------------------------------------------------------------
\* DOMPurify.sanitize with the options of lines 108-112
\* ------------------------------------------------------------------------

ALLOWED_TAGS ==
  {"h1", "h2", "h3", "h4", "h5", "h6", "p", "strong", "em", "code", "pre",
   "ul", "ol", "li", "blockquote", "a", "hr"}

ALLOWED_ATTR == {"href", "data-language", "data-type", "data-checked", "class"}

ALLOW_DATA_ATTR == TRUE

\* DOMPurify's default, which the options leave on
ALLOW_ARIA_ATTR == TRUE

\* the attribute names of the model that DOMPurify's DATA_ATTR pattern takes
IsDataAttr(name) == name \in {"data-language", "data-type", "data-checked", "data-x"}

\* the attribute names of the model that DOMPurify's ARIA_ATTR pattern takes
IsAriaAttr(name) == name \in {"aria-label"}

\* the elements DOMPurify removes with their content (its FORBID_CONTENTS)
FORBID_CONTENTS == {"script", "style", "iframe"}

\* an attribute check that lets every name pass
IsValidAttributeAny(name) == TRUE

IsValidAttribute(name) ==
  \/ ALLOW_DATA_ATTR /\ IsDataAttr(name)
  \/ ALLOW_ARIA_ATTR /\ IsAriaAttr(name)
  \/ name \in ALLOWED_ATTR

RECURSIVE SanitizeAttributes(_)
SanitizeAttributes(attrs) ==
  IF attrs = <<>> THEN <<>>
  ELSE (IF IsValidAttribute(Head(attrs).name) THEN <<Head(attrs)>> ELSE <<>>)
       \o SanitizeAttributes(Tail(attrs))

\* the wraps that stay: an element outside ALLOWED_TAGS goes, its content stays
RECURSIVE SanitizeWraps(_)
SanitizeWraps(wraps) ==
  IF wraps = <<>> THEN <<>>
  ELSE (IF Head(wraps).tag \in ALLOWED_TAGS
        THEN <<Wrap(Head(wraps).tag, SanitizeAttributes(Head(wraps).attrs))>>
        ELSE <<>>)
       \o SanitizeWraps(Tail(wraps))

TextLeaves(body, wraps) == [i \in 1..Len(body) |-> Leaf("text", body[i], <<>>, wraps)]

RECURSIVE SanitizeLeaves(_)
SanitizeLeaves(leaves) ==
  IF leaves = <<>> THEN <<>>
  ELSE LET l == Head(leaves)
           dropped == \E i \in 1..Len(l.wraps) :
                         /\ l.wraps[i].tag \notin ALLOWED_TAGS
                         /\ l.wraps[i].tag \in FORBID_CONTENTS
           kept == IF dropped THEN <<>>
                   ELSE IF l.kind = "text"
                   THEN <<Leaf("text", l.c, <<>>, SanitizeWraps(l.wraps))>>
                   ELSE IF "script" \in ALLOWED_TAGS
                   THEN <<Leaf(l.kind, l.c, l.body, SanitizeWraps(l.wraps))>>
                   ELSE IF "script" \in FORBID_CONTENTS THEN <<>>
                   ELSE TextLeaves(l.body, SanitizeWraps(l.wraps))
       IN kept \o SanitizeLeaves(Tail(leaves))

\* every block element of the markup is in ALLOWED_TAGS
RECURSIVE Sanitize(_)
Sanitize(dom) ==
  IF dom = <<>> THEN <<>>
  ELSE LET e == Head(dom)
       IN <<DomElement(e.tag, SanitizeAttributes(e.attrs), Sanitize(e.kids),
                       SanitizeLeaves(e.leaves))>>
          \o Sanitize(Tail(dom))

\* ------------------------------------------------------------------------
\* The document tree and DOMParser.fromSchema(schema).parse (line 115) over
\* the parse rules of simpleEditorSchema
\* ------------------------------------------------------------------------

NoAttrs == <<>>

Node(type, attrs, content) ==
  [type |-> type, attrs |-> attrs, content |-> content, text |-> <<>>, marks |-> <<>>]

TextNode(text, marks) ==
  [type |-> "text", attrs |-> NoAttrs, content |-> <<>>, text |-> text, marks |-> marks]

Mark(type, href) == [type |-> type, href |-> href]

MarkRank(type) ==
  CASE type = "strong" -> 1 [] type = "em" -> 2 [] type = "code" -> 3
    [] type = "link" -> 4 [] OTHER -> 5

\* schema.nodes.doc.create() in place of createAndFill(): a doc left unfilled
EmptyDocUnfilled == Node("doc", NoAttrs, <<>>)

\* schema.nodes.doc.createAndFill(): doc is block+, filled with one paragraph
EmptyDoc == Node("doc", NoAttrs, <<Node("paragraph", NoAttrs, <<>>)>>)

HasWrap(wraps, tags) == \E i \in 1..Len(wraps) : wraps[i].tag \in tags

\* the href of the innermost a[href] among the wraps
RECURSIVE LinkHref(_)
LinkHref(wraps) ==
  LET w == wraps[Len(wraps)]
  IN IF w.tag = "a" /\ w.attrs # <<>> /\ w.attrs[1].name = "href"
     THEN w.attrs[1].value
     ELSE LinkHref(SubSeq(wraps, 1, Len(wraps) - 1))

HasLink(wraps) ==
  \E i \in 1..Len(wraps) :
     wraps[i].tag = "a" /\ wraps[i].attrs # <<>> /\ wraps[i].attrs[1].name = "href"

\* the marks of a text under wraps, in the order of the schema's marks
\* (strong, em, code, link): Mark.addToSet keeps a mark set in that order
MarksOfWraps(wraps) ==
  (IF HasWrap(wraps, {"strong", "b"}) THEN <<Mark("strong", <<>>)>> ELSE <<>>)
  \o (IF HasWrap(wraps, {"em", "i"}) THEN <<Mark("em", <<>>)>> ELSE <<>>)
  \o (IF HasWrap(wraps, {"code"}) THEN <<Mark("code", <<>>)>> ELSE <<>>)
  \o (IF HasLink(wraps) THEN <<Mark("link", LinkHref(wraps))>> ELSE <<>>)

\* the characters of the text leaves with their marks; the parser ignores
\* script elements
RECURSIVE MarkedChars(_)
MarkedChars(leaves) ==
  IF leaves = <<>> THEN <<>>
  ELSE (IF Head(leaves).kind = "text"
        THEN <<[c |-> Head(leaves).c, marks |-> MarksOfWraps(Head(leaves).wraps)]>>
        ELSE <<>>)
       \o MarkedChars(Tail(leaves))

\* addTextNode without preserveWhitespace: a run of white space becomes one
\* space, and none stays at the start of a textblock or after white space
RECURSIVE CollapseWs(_, _)
CollapseWs(chars, i) ==
  IF i > Len(chars) THEN <<>>
  ELSE (IF IsWs(chars[i].c)
        THEN IF i = 1 \/ IsWs(chars[i - 1].c) THEN <<>>
             ELSE <<[c |-> " ", marks |-> chars[i].marks]>>
        ELSE <<chars[i]>>)
       \o CollapseWs(chars, i + 1)

\* NodeContext.finish: trailing white space of a textblock is stripped
StripTrailingWs(chars) ==
  IF chars # <<>> /\ IsWs(chars[Len(chars)].c)
  THEN SubSeq(chars, 1, Len(chars) - 1) ELSE chars

\* adjacent characters with the same marks are one text node
RECURSIVE GroupRuns(_)
GroupRuns(chars) ==
  IF chars = <<>> THEN <<>>
  ELSE LET rest == GroupRuns(Tail(chars))
           h == Head(chars)
       IN IF rest # <<>> /\ rest[1].marks = h.marks
          THEN <<TextNode(<<h.c>> \o rest[1].text, h.marks)>> \o Tail(rest)
          ELSE <<TextNode(<<h.c>>, h.marks)>> \o rest

\* the inline content of a textblock (paragraph, heading)
InlineContent(leaves) == GroupRuns(StripTrailingWs(CollapseWs(MarkedChars(leaves), 1)))

\* the content of a code_block: preserveWhitespace 'full', and no marks
CodeText(leaves) ==
  LET chars == MarkedChars(leaves)
  IN IF chars = <<>> THEN <<>>
     ELSE <<TextNode([i \in 1..Len(chars) |-> chars[i].c], <<>>)>>

HeadingLevelOfTag(tag) ==
  CASE tag = "h1" -> 1 [] tag = "h2" -> 2 [] tag = "h3" -> 3
    [] tag = "h4" -> 4 [] tag = "h5" -> 5 [] tag = "h6" -> 6

\* element.getAttribute(name), <<>> for null
RECURSIVE GetAttribute(_, _)
GetAttribute(attrs, name) ==
  IF attrs = <<>> THEN <<>>
  ELSE IF Head(attrs).name = name THEN Head(attrs).value
  ELSE GetAttribute(Tail(attrs), name)

\* content 'paragraph block*' and 'block+': inline content is wrapped in a
\* paragraph, and an empty node is filled with an empty one
WrappedInline(leaves) == <<Node("paragraph", NoAttrs, InlineContent(leaves))>>

RECURSIVE ParseDom(_)
\* the nodes of a sequence of elements, by the parseDOM rules of the schema
ParseDom(dom) ==
  IF dom = <<>> THEN <<>>
  ELSE LET e == Head(dom)
           isTaskList == GetAttribute(e.attrs, "data-type") = <<"taskList">>
           isTaskItem == GetAttribute(e.attrs, "data-type") = <<"taskItem">>
           node ==
             CASE e.tag = "p" -> Node("paragraph", NoAttrs, InlineContent(e.leaves))
               [] e.tag \in {"h1", "h2", "h3", "h4", "h5", "h6"} ->
                    Node("heading", [level |-> HeadingLevelOfTag(e.tag)],
                         InlineContent(e.leaves))
               [] e.tag = "blockquote" ->
                    Node("blockquote", NoAttrs, WrappedInline(e.leaves))
               [] e.tag = "pre" ->
                    Node("code_block",
                         [language |-> GetAttribute(e.attrs, "data-language")],
                         CodeText(e.leaves))
               [] e.tag = "ul" /\ isTaskList ->
                    Node("task_list", NoAttrs, ParseDom(e.kids))
               [] e.tag = "ul" /\ ~isTaskList ->
                    Node("bullet_list", NoAttrs, ParseDom(e.kids))
               [] e.tag = "ol" ->
                    Node("ordered_list", [order |-> 1], ParseDom(e.kids))
               [] e.tag = "li" /\ isTaskItem ->
                    Node("task_list_item",
                         [checked |-> GetAttribute(e.attrs, "data-checked") = <<"true">>],
                         WrappedInline(e.leaves))
               [] e.tag = "li" /\ ~isTaskItem ->
                    Node("list_item", NoAttrs, WrappedInline(e.leaves))
               [] e.tag = "hr" -> Node("horizontal_rule", NoAttrs, <<>>)
       IN <<node>> \o ParseDom(Tail(dom))

\* DOMParser.parse: the doc of the elements, filled when it would be empty
DocOfDom(dom) ==
  IF dom = <<>> THEN EmptyDoc ELSE Node("doc", NoAttrs, ParseDom(dom))

\* lines 107-112: the markup handed to the materializer
SanitizedDom(markdown) == Sanitize(ParseHtml(BuildHtml(Split(markdown), 1)))

\* ------------------------------------------------------------------------
\* parseMarkdown (lines 34-129)
\* ------------------------------------------------------------------------

\* a value handed to parseMarkdown: a string, or something that is none
Str(s) == [kind |-> "string", s |-> s]

NonString(kind) == [kind |-> kind, s |-> <<>>]

\* lines 36-42: markdown.length of null or undefined and markdown.substring
\* of a value without that method throw a TypeError inside the try block
LogThrows(markdown) == markdown.kind # "string"

\* sanitizedHtml (line 108) of a call that gets as far, <<>> of one that
\* returns or throws before
SanitizedHtml(markdown) ==
  IF LogThrows(markdown) \/ markdown.s = <<>> THEN <<>>
  ELSE SanitizedDom(markdown.s)

\* the doc returned for markdown, sanitized being its sanitizedHtml
parseMarkdown(markdown, sanitized) ==
  IF LogThrows(markdown) THEN EmptyDoc                \* the catch, lines 125-128
  ELSE IF markdown.s = <<>> THEN EmptyDoc             \* lines 44-46
  ELSE DocOfDom(sanitized)                            \* lines 114-124

\* ------------------------------------------------------------------------
\* serializeToMarkdown (lines 134-315)
\* ------------------------------------------------------------------------

\* the text of one mark around childText (the switch of lines 287-297)
WrapMark(childText, mark) ==
  CASE mark.type = "strong" -> <<"*", "*">> \o childText \o <<"*", "*">>
    [] mark.type = "em" -> <<"*">> \o childText \o <<"*">>
    [] mark.type = "code" -> <<Backtick>> \o childText \o <<Backtick>>
    [] OTHER -> childText

\* otherMarks.forEach(...) from mark i on
RECURSIVE ApplyMarks(_, _, _)
ApplyMarks(childText, marks, i) ==
  IF i > Len(marks) THEN childText
  ELSE ApplyMarks(IF marks[i].type # "link" THEN WrapMark(childText, marks[i])
                  ELSE childText,
                  marks, i + 1)

\* child.marks.find(mark => mark.type.name === 'link'): its index, 0 when none
RECURSIVE FindLink(_, _)
FindLink(marks, i) ==
  IF i > Len(marks) THEN 0
  ELSE IF marks[i].type = "link" THEN i ELSE FindLink(marks, i + 1)

\* one text child with the link mark applied before the other marks
TextToMarkdownLinkFirst(child) ==
  LET l == FindLink(child.marks, 1)
      linked == IF l > 0
                THEN <<"[">> \o child.text \o <<"]", "(">> \o child.marks[l].href \o <<")">>
                ELSE child.text
  IN ApplyMarks(linked, child.marks, 1)

\* lines 279-308: one text child
TextToMarkdown(child) ==
  LET formatted == ApplyMarks(child.text, child.marks, 1)
      l == FindLink(child.marks, 1)
  IN IF l > 0
     THEN <<"[">> \o formatted \o <<"]", "(">> \o child.marks[l].href \o <<")">>
     ELSE formatted

RECURSIVE nodeToText(_)
RECURSIVE NodesToText(_)
nodeToText(node) == NodesToText(node.content)

NodesToText(children) ==
  IF children = <<>> THEN <<>>
  ELSE (IF Head(children).type = "text" THEN TextToMarkdown(Head(children))
        ELSE nodeToText(Head(children)))
       \o NodesToText(Tail(children))

\* node.textContent
RECURSIVE TextContent(_)
TextContent(children) ==
  IF children = <<>> THEN <<>>
  ELSE (IF Head(children).type = "text" THEN Head(children).text
        ELSE TextContent(Head(children).content))
       \o TextContent(Tail(children))

\* `${currentNum}`
RECURSIVE NumberToString(_)
NumberToString(n) ==
  LET digit == CASE n % 10 = 0 -> "0" [] n % 10 = 1 -> "1" [] n % 10 = 2 -> "2"
                 [] n % 10 = 3 -> "3" [] n % 10 = 4 -> "4" [] n % 10 = 5 -> "5"
                 [] n % 10 = 6 -> "6" [] n % 10 = 7 -> "7" [] n % 10 = 8 -> "8"
                 [] OTHER -> "9"
  IN IF n < 10 THEN <<digit>> ELSE NumberToString(n \div 10) \o <<digit>>

\* nestedList.split('\n').map(line => '  ' + line).join('\n')
IndentLines(text) ==
  LET lines == Split(text)
  IN Join([i \in 1..Len(lines) |-> <<" ", " ">> \o lines[i]])

RECURSIVE serializeList(_, _, _)
RECURSIVE ListItems(_, _, _, _)
RECURSIVE ItemText(_)

\* lines 225-234: the text of the children of a list item
ItemText(children) ==
  IF children = <<>> THEN <<>>
  ELSE LET itemChild == Head(children)
       IN (IF itemChild.type = "paragraph" THEN nodeToText(itemChild)
           ELSE IF itemChild.type \in {"bullet_list", "ordered_list"}
           THEN <<"\n">> \o IndentLines(
                  serializeList(itemChild,
                                IF itemChild.type = "bullet_list" THEN "-" ELSE "1.",
                                0))
           ELSE <<>>)
          \o ItemText(Tail(children))

\* lines 221-242: the items from item i on, with the counter at currentNum
ListItems(items, marker, currentNum, i) ==
  IF i > Len(items) THEN <<>>
  ELSE IF items[i].type = "list_item" /\ Trim(ItemText(items[i].content)) # <<>>
  THEN (IF marker = "1." THEN NumberToString(currentNum) \o <<".">> ELSE <<marker>>)
       \o <<" ">> \o Trim(ItemText(items[i].content)) \o <<"\n">>
       \o ListItems(items, marker, IF marker = "1." THEN currentNum + 1 ELSE currentNum,
                    i + 1)
  ELSE ListItems(items, marker, currentNum, i + 1)

\* startNum is 0 for a call without it: `startNum || 1`
serializeList(listNode, marker, startNum) ==
  TrimEnd(ListItems(listNode.content, marker, IF startNum = 0 THEN 1 ELSE startNum, 1))

\* lines 259-263: the paragraphs of a task item
RECURSIVE TaskItemText(_)
TaskItemText(children) ==
  IF children = <<>> THEN <<>>
  ELSE (IF Head(children).type = "paragraph" THEN nodeToText(Head(children)) ELSE <<>>)
       \o TaskItemText(Tail(children))

RECURSIVE TaskItems(_, _)
TaskItems(items, i) ==
  IF i > Len(items) THEN <<>>
  ELSE (IF items[i].type = "task_list_item" /\ Trim(TaskItemText(items[i].content)) # <<>>
        THEN <<"-", " ", "[", IF items[i].attrs.checked THEN "x" ELSE " ", "]", " ">>
             \o Trim(TaskItemText(items[i].content)) \o <<"\n">>
        ELSE <<>>)
       \o TaskItems(items, i + 1)

serializeTaskList(taskListNode) == TrimEnd(TaskItems(taskListNode.content, 1))

\* the switch without its default case: a node of another type is dropped
NodeMarkdownKnownOnly(node) ==
  CASE node.type = "paragraph" -> nodeToText(node)
    [] node.type = "heading" ->
         Repeat("#", node.attrs.level) \o <<" ">> \o nodeToText(node)
    [] node.type = "blockquote" -> <<">", " ">> \o nodeToText(node)
    [] node.type = "horizontal_rule" -> <<"-", "-", "-">>
    [] OTHER -> <<>>

\* the switch of lines 148-189
NodeMarkdown(node) ==
  CASE node.type = "paragraph" -> nodeToText(node)
    [] node.type = "heading" ->
         Repeat("#", node.attrs.level) \o <<" ">> \o nodeToText(node)
    [] node.type = "blockquote" -> <<">", " ">> \o nodeToText(node)
    [] node.type = "code_block" ->
         <<Backtick, Backtick, Backtick>> \o node.attrs.language \o <<"\n">>
         \o TextContent(node.content) \o <<"\n", Backtick, Backtick, Backtick>>
    [] node.type = "bullet_list" -> serializeList(node, "-", 0)
    [] node.type = "ordered_list" -> serializeList(node, "1.", node.attrs.order)
    [] node.type = "task_list" -> serializeTaskList(node)
    [] node.type \in {"task_list_item", "list_item"} -> <<>>
    [] node.type = "horizontal_rule" -> <<"-", "-", "-">>
    [] OTHER -> IF Trim(nodeToText(node)) # <<>> THEN nodeToText(node) ELSE <<>>

\* doc.forEach with a line break after every node instead of between nodes
RECURSIVE SerializeFromTerminated(_, _)
SerializeFromTerminated(nodes, i) ==
  IF i > Len(nodes) THEN <<>>
  ELSE NodeMarkdown(nodes[i]) \o <<"\n">> \o SerializeFromTerminated(nodes, i + 1)

\* lines 145-201: doc.forEach from child i on
RECURSIVE SerializeFrom(_, _)
SerializeFrom(nodes, i) ==
  IF i > Len(nodes) THEN <<>>
  ELSE (IF i > 1 THEN <<"\n">> ELSE <<>>)
       \o NodeMarkdown(nodes[i])
       \o SerializeFrom(nodes, i + 1)

serializeToMarkdown(doc) == SerializeFrom(doc.content, 1)

\* ------------------------------------------------------------------------
\* The bounded inputs
\* ------------------------------------------------------------------------

\* the longest body of a line, in pieces
MaxBody == 2

\* the conversions of one run: parse, serialize, parse, serialize
MaxRounds == 2

RECURSIVE Flatten(_)
Flatten(pieces) ==
  IF pieces = <<>> THEN <<>> ELSE Head(pieces) \o Flatten(Tail(pieces))

\* the concatenations of at most n pieces
Concats(pieces, n) == {Flatten(ps) : ps \in UNION {[1..k -> pieces] : k \in 0..n}}

\* the openings of a line: the block markers and their near misses
Openings ==
  { <<>>,
    <<"#", " ">>, <<"#", "#", " ">>, <<"#", "#", "#", " ">>,
    <<"#", "#", "#", "#", " ">>, <<"#", "#", "#", "#", "#", " ">>,
    <<"#", "#", "#", "#", "#", "#", " ">>,
    <<"#", "#", "#", "#", "#", "#", "#", " ">>, <<"#">>,
    <<"-", " ">>, <<"*", " ">>,
    <<"-", " ", "[", " ", "]", " ">>, <<"-", " ", "[", "x", "]", " ">>,
    <<"-", " ", "[", "X", "]", " ">>, <<"-", "[", "]", " ">>,
    <<"-", " ", "[", " ", "]">>,
    <<"1", ".", " ">>, <<"1", "2", ".", " ">>, <<"1", ".">>,
    <<">", " ">>, <<">">>,
    <<"-", "-", "-">>, <<"-", "-", "-", "-">>, <<"-", "-">>,
    <<Backtick, Backtick, Backtick>>,
    <<" ", "#", " ">> }

\* the pieces of the text of a line
BodyPieces ==
  { <<"a">>, <<" ">>, <<"b", " ", "c">>, <<"*">>, <<"_">>, <<Backtick>>,
    <<"[", "a", "]", "(", "u", ")">> }

\* what follows the first line
Endings ==
  { <<>>, <<"\n">>, <<"\n", Backtick, Backtick, Backtick>>, <<"\n", "-", " ", "a">> }

MarkdownInputs ==
  {Str(o \o b \o e) : o \in Openings, b \in Concats(BodyPieces, MaxBody), e \in Endings}
  \cup {NonString("null"), NonString("undefined"), NonString("number")}

\* the most pieces in a line of raw HTML
MaxHtml == 2

Script == <<"<script>", "alert", "(", "1", ")", "</script>">>

\* the atoms that hold a double quote
QuotedAtoms ==
  {"<span class=\"c\">", "<em onclick=\"x\">", "<em title=\"t\">",
   "<em data-x=\"1\">", "<em aria-label=\"l\">", "<em class=\"c\">"}

HtmlPieces ==
  {Script, <<"a">>, <<"<b>">>, <<"</b>">>, <<"</em>">>, <<Backtick>>, <<"*", "*">>,
   <<"[", "a", "]", "(", "u", ")">>,
   <<"[", "a", "]", "(">> \o Script \o <<")">>}
  \cup {<<a>> : a \in QuotedAtoms}

\* the block kinds a line of raw HTML can be of; the last one puts it in the
\* body of a fenced block
HtmlOpenings ==
  { <<>>, <<"#", " ">>, <<"-", " ">>, <<"-", " ", "[", " ", "]", " ">>,
    <<"1", ".", " ">>, <<">", " ">>, <<Backtick, Backtick, Backtick>>,
    <<Backtick, Backtick, Backtick, "\n">> }

\* a fence info string goes into a double-quoted attribute value, which an
\* atom with a double quote would end
HtmlInputs ==
  {Str(o \o b) : o \in HtmlOpenings,
                 b \in {c \in Concats(HtmlPieces, MaxHtml) :
                          \A i \in 1..Len(c) : c[i] \notin QuotedAtoms}}
  \cup {Str(o \o b) : o \in HtmlOpenings \ {<<Backtick, Backtick, Backtick>>},
                      b \in Concats(HtmlPieces, MaxHtml)}

\* the marks a text can carry, in every order (Mark.setFrom and addToSet
\* keep the marks of a node of the schema in the order strong, em, code,
\* link; nodeToText takes a node with its marks in any order)
MarkChoices ==
  {Mark("strong", <<>>), Mark("em", <<>>), Mark("code", <<>>), Mark("link", <<"u">>)}

MarkOrders ==
  {ms \in UNION {[1..k -> MarkChoices] : k \in 0..Cardinality(MarkChoices)} :
     \A i, j \in 1..Len(ms) : i # j => ms[i] # ms[j]}

MarkedTexts == {<<"a">>, <<"b", " ", "c">>}

\* the docs of one textblock that holds one marked text
MarkedDocs ==
  {Node("doc", NoAttrs, <<Node("paragraph", NoAttrs, <<TextNode(t, ms)>>)>>) :
     t \in MarkedTexts, ms \in MarkOrders}
  \cup {Node("doc", NoAttrs, <<Node("heading", [level |-> 2], <<TextNode(t, ms)>>)>>) :
          t \in MarkedTexts, ms \in MarkOrders}

\* the deepest nesting of a list below the top-level list
MaxDepth == 2

\* the most top-level nodes of a doc of blocks
MaxBlocks == 3

Paragraph(text) ==
  Node("paragraph", NoAttrs, IF text = <<>> THEN <<>> ELSE <<TextNode(text, <<>>)>>)

ListItem(paragraph, lists) == Node("list_item", NoAttrs, <<paragraph>> \o lists)

\* bullet lists, and ordered lists with and without a start other than 1
ListShells ==
  {[type |-> "bullet_list", attrs |-> NoAttrs],
   [type |-> "ordered_list", attrs |-> [order |-> 1]],
   [type |-> "ordered_list", attrs |-> [order |-> 3]]}

ItemParagraphs == {Paragraph(<<>>), Paragraph(<<"a">>)}

\* the lists of one item that nest at most d lists below them
RECURSIVE NestedLists(_)
NestedLists(d) ==
  {Node(l.type, l.attrs, <<ListItem(p, n)>>) :
     l \in ListShells, p \in ItemParagraphs,
     n \in {<<>>} \cup (IF d = 0 THEN {} ELSE {<<k>> : k \in NestedLists(d - 1)})}

\* the docs of one list: an item that may nest lists, and maybe a second item
ListDocs ==
  {Node("doc", NoAttrs, <<Node(l.type, l.attrs, <<ListItem(p, n)>> \o more)>>) :
     l \in ListShells, p \in ItemParagraphs,
     n \in {<<>>} \cup {<<k>> : k \in NestedLists(MaxDepth - 1)},
     more \in {<<>>} \cup {<<ListItem(q, <<>>)>> : q \in ItemParagraphs}}

\* the top-level nodes of a doc of blocks; the lists and the task list have
\* no item with text
BlockChoices ==
  {Paragraph(<<"a">>), Paragraph(<<>>),
   Node("heading", [level |-> 1], <<TextNode(<<"b">>, <<>>)>>),
   Node("horizontal_rule", NoAttrs, <<>>),
   Node("bullet_list", NoAttrs, <<ListItem(Paragraph(<<>>), <<>>)>>),
   Node("task_list", NoAttrs,
        <<Node("task_list_item", [checked |-> FALSE], <<Paragraph(<<>>)>>)>>)}

BlockDocs ==
  {Node("doc", NoAttrs, blocks) :
     blocks \in UNION {[1..k -> BlockChoices] : k \in 1..MaxBlocks}}

\* the most top-level nodes of a doc built on another schema
MaxForeign == 2

\* a node type and a mark type that the serializer has no case for
Foreign(content) == Node("figure", NoAttrs, content)

Underline == Mark("underline", <<>>)

\* top-level nodes of a schema that extends simpleEditorSchema
ForeignChoices ==
  {Foreign(<<TextNode(<<"a">>, <<>>)>>),
   Foreign(<<TextNode(<<"a">>, <<Underline>>)>>),
   Foreign(<<TextNode(<<" ">>, <<>>)>>),
   Foreign(<<>>),
   Foreign(<<Paragraph(<<"b">>)>>),
   Node("paragraph", NoAttrs, <<TextNode(<<"a">>, <<Underline>>)>>),
   Node("paragraph", NoAttrs, <<TextNode(<<"a">>, <<Mark("strong", <<>>), Underline>>)>>),
   Paragraph(<<"c">>)}

ForeignDocs ==
  {Node("doc", NoAttrs, bs) : bs \in UNION {[1..k -> ForeignChoices] : k \in 1..MaxForeign}}

\* ------------------------------------------------------------------------
\* InputRulesService (lines 366-658): the patterns of the rules.  A pattern
\* is matched against the text before the caret with the typed text added;
\* each operator gives the index where the match starts, 0 when the pattern
\* does not match.  Every pattern ends in $, so a match runs to the end.
\* ------------------------------------------------------------------------

\* the atoms of the characters U+2014, U+2192, U+2190 and U+1F34C
EmDash == "emdash"
RightArrow == "rightarrow"
LeftArrow == "leftarrow"
Banana == "bananaemoji"

AllIn(t, from, to, set) == \A i \in from..to : t[i] \in set

AllWs(t, from, to) == \A i \in from..to : IsWs(t[i])

\* the least and the greatest number of a set of indices, 0 when it is empty
MinIndex(S) == IF S = {} THEN 0 ELSE CHOOSE x \in S : \A y \in S : x <= y

MaxIndex(S) == IF S = {} THEN 0 ELSE CHOOSE x \in S : \A y \in S : x >= y

\* the last index <= i of t that holds c (0 when none)
LastIndexOf(t, c, i) == MaxIndex({k \in 1..i : t[k] = c})

EndsWith(t, suffix) ==
  Len(t) >= Len(suffix) /\ SubSeq(t, Len(t) - Len(suffix) + 1, Len(t)) = suffix

\* /^(#{1,6})\s$/
HeadingRuleMatch(t) ==
  LET n == Len(t)
  IN IF n >= 2 /\ n <= 7 /\ IsWs(t[n]) /\ AllIn(t, 1, n - 1, {"#"}) THEN 1 ELSE 0

\* /^\s*([-+*])\s$/
BulletRuleMatch(t) ==
  LET n == Len(t)
  IN IF n >= 2 /\ IsWs(t[n]) /\ t[n - 1] \in {"-", "+", "*"} /\ AllWs(t, 1, n - 2)
     THEN 1 ELSE 0

\* /^\s*(\d+)\.\s$/: the index where the digits start, 0 when no match
OrderedRuleDigits(t) ==
  LET n == Len(t)
      d == MinIndex({k \in 1..n : ~IsWs(t[k])})
  IN IF n >= 3 /\ IsWs(t[n]) /\ t[n - 1] = "." /\ d >= 1 /\ d <= n - 2
        /\ \A i \in d..(n - 2) : IsDigit(t[i])
     THEN d ELSE 0

OrderedRuleMatch(t) == IF OrderedRuleDigits(t) > 0 THEN 1 ELSE 0

\* /^```(\S*)\s$/
FenceRuleMatch(t) ==
  LET n == Len(t)
  IN IF n >= 4 /\ StartsWithFence(t) /\ IsWs(t[n]) /\ \A i \in 4..(n - 1) : ~IsWs(t[i])
     THEN 1 ELSE 0

\* /^\s*>\s$/
BlockquoteRuleMatch(t) ==
  LET n == Len(t)
  IN IF n >= 2 /\ IsWs(t[n]) /\ t[n - 1] = ">" /\ AllWs(t, 1, n - 2) THEN 1 ELSE 0

\* /dd([^d]+)dd$/ for a delimiter character d: the enclosed text holds no d,
\* so it starts after the last d before the closing pair
DoubleDelimiterMatch(t, d) ==
  LET n == Len(t)
      j == LastIndexOf(t, d, n - 2)
  IN IF n >= 5 /\ t[n] = d /\ t[n - 1] = d /\ j >= 2 /\ j < n - 2 /\ t[j - 1] = d
     THEN j - 1 ELSE 0

\* /(?<!d)d([^d]+)d(?!d)$/
SingleDelimiterMatch(t, d) ==
  LET n == Len(t)
      j == LastIndexOf(t, d, n - 1)
  IN IF n >= 3 /\ t[n] = d /\ j >= 1 /\ j < n - 1 /\ (j = 1 \/ t[j - 1] # d)
     THEN j ELSE 0

\* /`([^`]*)`$/: the pattern with a text that may be empty
CodeRuleMatchEmpty(t) ==
  LET n == Len(t)
      j == LastIndexOf(t, Backtick, n - 1)
  IN IF n >= 2 /\ t[n] = Backtick /\ j >= 1 THEN j ELSE 0

\* /`([^`]+)`$/
CodeRuleMatch(t) ==
  LET n == Len(t)
      j == LastIndexOf(t, Backtick, n - 1)
  IN IF n >= 3 /\ t[n] = Backtick /\ j >= 1 /\ j < n - 1 THEN j ELSE 0

\* /\[([^\]]+)\]\(([^)]+)\)$/: the first [ from which the pattern matches;
\* the text runs to the first ] after the [, the target from the ( after it
\* to the closing )
LinkRuleMatch(t) ==
  LET n == Len(t)
      textEnd(i) == MinIndex({k \in (i + 1)..n : t[k] = "]"})
  IN IF n = 0 \/ t[n] # ")" THEN 0
     ELSE MinIndex({i \in 1..n :
            /\ t[i] = "["
            /\ textEnd(i) > i + 1
            /\ textEnd(i) + 2 <= n - 1
            /\ t[textEnd(i) + 1] = "("
            /\ \A k \in (textEnd(i) + 2)..(n - 1) : t[k] # ")"})

\* the index of the ] that ends the text of the link matched at i
LinkTextEnd(t, i) == MinIndex({k \in (i + 1)..Len(t) : t[k] = "]"})

\* /https?:\/\/[^\s]+$/: the first index from which the pattern matches
AutoLinkRuleMatch(t) ==
  LET n == Len(t)
      rest(k) == k + 2 <= n /\ SubSeq(t, k, k + 2) = <<":", "/", "/">>
                 /\ k + 3 <= n /\ \A m \in (k + 3)..n : ~IsWs(t[m])
  IN MinIndex({i \in 1..(n - 3) :
       /\ SubSeq(t, i, i + 3) = <<"h", "t", "t", "p">>
       /\ (rest(i + 4) \/ (i + 4 <= n /\ t[i + 4] = "s" /\ rest(i + 5)))})

\* /^(---|—-)$/
HorizontalRuleMatch(t) ==
  IF t = <<"-", "-", "-">> \/ t = <<EmDash, "-">> THEN 1 ELSE 0

\* /->$/, /<-$/ and /banana$/
SuffixMatch(t, suffix) == IF EndsWith(t, suffix) THEN Len(t) - Len(suffix) + 1 ELSE 0

\* /^\[\]\s$/
TaskListRuleMatch(t) ==
  IF Len(t) = 3 /\ t[1] = "[" /\ t[2] = "]" /\ IsWs(t[3]) THEN 1 ELSE 0

\* ------------------------------------------------------------------------
\* The editor state the rules act on.  The caret stands at the end of a
\* textblock that is the last node of the doc: path holds the ancestors of
\* that block from the doc down, each with the children it has before the
\* child on the path; chars holds the characters of the block with their
\* marks.
\* ------------------------------------------------------------------------

Ancestor(type, attrs, before) == [type |-> type, attrs |-> attrs, before |-> before]

Char(c, marks) == [c |-> c, marks |-> marks]

\* EditorState.create({ schema, plugins }): the doc is createAndFill()
InitialView ==
  [path |-> <<Ancestor("doc", NoAttrs, <<>>)>>,
   block |-> [type |-> "paragraph", attrs |-> NoAttrs],
   chars |-> <<>>]

\* parent.textBetween(...): the characters without their marks
TextOf(chars) == [i \in 1..Len(chars) |-> chars[i].c]

\* the text nodes of the characters: one node for each run of equal marks
RECURSIVE TextNodes(_)
TextNodes(chars) ==
  IF chars = <<>> THEN <<>>
  ELSE LET rest == TextNodes(Tail(chars))
           c == chars[1]
       IN IF rest # <<>> /\ rest[1].marks = c.marks
          THEN <<TextNode(<<c.c>> \o rest[1].text, c.marks)>> \o Tail(rest)
          ELSE <<TextNode(<<c.c>>, c.marks)>> \o rest

\* the doc of an editor state
RECURSIVE WrapInPath(_, _)
WrapInPath(path, node) ==
  IF path = <<>> THEN node
  ELSE LET a == path[Len(path)]
       IN WrapInPath(SubSeq(path, 1, Len(path) - 1),
                     Node(a.type, a.attrs, a.before \o <<node>>))

ViewDoc(v) == WrapInPath(v.path, Node(v.block.type, v.block.attrs, TextNodes(v.chars)))

\* Mark.addToSet: a mark replaces the one of its type and stands at its rank
AddToSet(marks, mark) ==
  SelectSeq(marks, LAMBDA m : MarkRank(m.type) < MarkRank(mark.type))
    \o <<mark>>
    \o SelectSeq(marks, LAMBDA m : MarkRank(m.type) > MarkRank(mark.type))

\* ResolvedPos.marks() at the end of the characters: the marks of the
\* character before, without link, which is not inclusive
MarksAtEnd(chars) ==
  IF chars = <<>> THEN <<>>
  ELSE SelectSeq(chars[Len(chars)].marks, LAMBDA m : m.type # "link")

\* tr.insertText(text, pos) at the end of the characters
InsertAtEnd(chars, text) ==
  chars \o [i \in 1..Len(text) |-> Char(text[i], MarksAtEnd(chars))]

\* Number(digits), the + of +match[1]
RECURSIVE NumberOf(_)
NumberOf(digits) ==
  IF digits = <<>> THEN 0
  ELSE LET last == digits[Len(digits)]
           value == CHOOSE d \in 0..9 :
                      <<"0", "1", "2", "3", "4", "5", "6", "7", "8", "9">>[d + 1] = last
       IN 10 * NumberOf(SubSeq(digits, 1, Len(digits) - 1)) + value

\* a handler that returns null
NoTransaction == [fired |-> FALSE]

Transaction(v) == [fired |-> TRUE, view |-> v]

\* canReplaceWith / findWrapping at the block of the caret: doc and
\* blockquote are block+, an item is 'paragraph block*' and takes another
\* block than a paragraph only after its first child
AcceptsBlock(a) ==
  \/ a.type \in {"doc", "blockquote"}
  \/ a.type \in {"list_item", "task_list_item"} /\ a.before # <<>>

\* textblockTypeInputRule: null when the parent cannot hold the node type,
\* else the match is deleted and the block gets the type
textblockTypeInputRule(v, start, type, attrs) ==
  IF ~AcceptsBlock(v.path[Len(v.path)]) THEN NoTransaction
  ELSE LET kept == SubSeq(v.chars, 1, start - 1)
       IN Transaction([v EXCEPT
            !.block = [type |-> type, attrs |-> attrs],
            !.chars = IF type = "code_block"
                      THEN [i \in 1..Len(kept) |-> Char(kept[i].c, <<>>)]
                      ELSE kept])

\* wrappingInputRule: null when findWrapping finds no wrapping (the parent
\* cannot hold the wrapper, or the wrapper's item cannot start with the
\* block), else the match is deleted, the block wrapped, and the wrapper
\* joined to a node of its type right before it
wrappingInputRule(v, start, type, attrs) ==
  LET parent == v.path[Len(v.path)]
      item == IF type = "task_list" THEN <<Ancestor("task_list_item", [checked |-> FALSE], <<>>)>>
              ELSE IF type = "blockquote" THEN <<>>
              ELSE <<Ancestor("list_item", NoAttrs, <<>>)>>
      joins == parent.before # <<>> /\ parent.before[Len(parent.before)].type = type
      before == parent.before[Len(parent.before)]
      outer == IF joins
               THEN <<Ancestor(parent.type, parent.attrs,
                               SubSeq(parent.before, 1, Len(parent.before) - 1)),
                      Ancestor(type, before.attrs, before.content)>>
               ELSE <<parent, Ancestor(type, attrs, <<>>)>>
  IN IF ~AcceptsBlock(parent) \/ (item # <<>> /\ v.block.type # "paragraph")
     THEN NoTransaction
     ELSE Transaction([v EXCEPT
            !.path = SubSeq(v.path, 1, Len(v.path) - 1) \o outer \o item,
            !.chars = SubSeq(v.chars, 1, start - 1)])

\* a handler that inserts the whole match, match[0], with the mark
createMarkInputRuleFullMatch(v, match, start, width, markType) ==
  LET kept == SubSeq(v.chars, 1, start - 1)
      inserted == InsertAtEnd(kept, match)
  IN Transaction([v EXCEPT !.chars =
       [i \in 1..Len(inserted) |->
          IF i < start THEN inserted[i]
          ELSE Char(inserted[i].c, AddToSet(inserted[i].marks, Mark(markType, <<>>)))]])

\* createMarkInputRule (lines 512-532): the match is deleted, the captured
\* text inserted in its place and the mark added to it
createMarkInputRule(v, match, start, width, markType) ==
  LET kept == SubSeq(v.chars, 1, start - 1)
      captureGroup == SubSeq(match, 1 + width, Len(match) - width)
      inserted == InsertAtEnd(kept, captureGroup)
  IN Transaction([v EXCEPT !.chars =
       [i \in 1..Len(inserted) |->
          IF i < start THEN inserted[i]
          ELSE Char(inserted[i].c, AddToSet(inserted[i].marks, Mark(markType, <<>>)))]])

\* markdownLinkRule (lines 543-558)
markdownLinkRule(v, match, start) ==
  LET kept == SubSeq(v.chars, 1, start - 1)
      textEnd == LinkTextEnd(match, 1)
      text == SubSeq(match, 2, textEnd - 1)
      href == SubSeq(match, textEnd + 2, Len(match) - 1)
      inserted == InsertAtEnd(kept, text)
  IN Transaction([v EXCEPT !.chars =
       [i \in 1..Len(inserted) |->
          IF i < start THEN inserted[i]
          ELSE Char(inserted[i].c, AddToSet(inserted[i].marks, Mark("link", href)))]])

\* autoLinkRule (lines 561-573): the link is added to the characters of the
\* match that stand in the doc; the typed text is not inserted
autoLinkRule(v, match, start) ==
  Transaction([v EXCEPT !.chars =
    [i \in 1..Len(v.chars) |->
       IF i < start THEN v.chars[i]
       ELSE Char(v.chars[i].c, AddToSet(v.chars[i].marks, Mark("link", match)))]])

\* the depths replaceRange may replace for a range that covers the block:
\* the block, and each ancestor whose descendants on the path are all first
\* children
RECURSIVE CoveredFrom(_, _)
CoveredFrom(path, d) ==
  IF d > 1 /\ path[d].before = <<>> THEN CoveredFrom(path, d - 1) ELSE d

\* the deepest index >= low of the path whose node takes a horizontal rule
RECURSIVE TargetDepth(_, _, _)
TargetDepth(path, d, low) ==
  IF d <= low \/ AcceptsBlock(path[d]) THEN d ELSE TargetDepth(path, d - 1, low)

\* hrRule (lines 585-595): replaceRange puts the rule and a paragraph in
\* place of the block, or of the ancestor it fills, in the nearest node that
\* takes a rule; the caret goes to the new paragraph
hrRule(v) ==
  LET depth == TargetDepth(v.path, Len(v.path), CoveredFrom(v.path, Len(v.path)))
      parent == v.path[depth]
  IN Transaction(
       [path |-> SubSeq(v.path, 1, depth - 1)
                   \o <<Ancestor(parent.type, parent.attrs,
                                 Append(parent.before, Node("horizontal_rule", NoAttrs, <<>>)))>>,
        block |-> [type |-> "paragraph", attrs |-> NoAttrs],
        chars |-> <<>>])

\* the arrow rules (lines 620-654): tr.replaceWith(start, end, schema.text(..))
arrowRule(v, start, replacement) ==
  Transaction([v EXCEPT !.chars = Append(SubSeq(v.chars, 1, start - 1), Char(replacement, <<>>))])

\* the rules in an order that puts autoLinkRule first
createInputRulesAutoLinkFirst ==
  <<"autolink", "heading", "bullet_list", "ordered_list", "code_block", "blockquote",
    "strong_star", "strong_underscore", "em_star", "em_underscore", "code",
    "link", "horizontal_rule", "right_arrow", "left_arrow", "banana", "task_list">>

\* createInputRules (lines 376-407): the rules in the order of the array
\* that is handed to inputRules({ rules })
createInputRules ==
  <<"heading", "bullet_list", "ordered_list", "code_block", "blockquote",
    "strong_star", "strong_underscore", "em_star", "em_underscore", "code",
    "link", "autolink", "horizontal_rule", "right_arrow", "left_arrow", "banana",
    "task_list">>

\* rule.match.exec(textBefore): the index where the match starts, 0 for null
RuleMatch(rule, t) ==
  CASE rule = "heading" -> HeadingRuleMatch(t)
    [] rule = "bullet_list" -> BulletRuleMatch(t)
    [] rule = "ordered_list" -> OrderedRuleMatch(t)
    [] rule = "code_block" -> FenceRuleMatch(t)
    [] rule = "blockquote" -> BlockquoteRuleMatch(t)
    [] rule = "strong_star" -> DoubleDelimiterMatch(t, "*")
    [] rule = "strong_underscore" -> DoubleDelimiterMatch(t, "_")
    [] rule = "em_star" -> SingleDelimiterMatch(t, "*")
    [] rule = "em_underscore" -> SingleDelimiterMatch(t, "_")
    [] rule = "code" -> CodeRuleMatch(t)
    [] rule = "link" -> LinkRuleMatch(t)
    [] rule = "autolink" -> AutoLinkRuleMatch(t)
    [] rule = "horizontal_rule" -> HorizontalRuleMatch(t)
    [] rule = "right_arrow" -> SuffixMatch(t, <<"-", ">">>)
    [] rule = "left_arrow" -> SuffixMatch(t, <<"<", "-">>)
    [] rule = "banana" -> SuffixMatch(t, <<"b", "a", "n", "a", "n", "a">>)
    [] rule = "task_list" -> TaskListRuleMatch(t)

\* rule.handler(state, match, start, end): match is match[0], the matched
\* text with the typed text, start the index of its first character in the
\* block
RuleHandler(rule, v, match, start) ==
  CASE rule = "heading" ->
         textblockTypeInputRule(v, start, "heading", [level |-> Len(match) - 1])
    [] rule = "bullet_list" -> wrappingInputRule(v, start, "bullet_list", NoAttrs)
    [] rule = "ordered_list" ->
         wrappingInputRule(v, start, "ordered_list",
           [order |-> NumberOf(SubSeq(match, OrderedRuleDigits(match), Len(match) - 2))])
    [] rule = "code_block" ->
         textblockTypeInputRule(v, start, "code_block",
           [language |-> SubSeq(match, 4, Len(match) - 1)])
    [] rule = "blockquote" -> wrappingInputRule(v, start, "blockquote", NoAttrs)
    [] rule = "strong_star" -> createMarkInputRule(v, match, start, 2, "strong")
    [] rule = "strong_underscore" -> createMarkInputRule(v, match, start, 2, "strong")
    [] rule = "em_star" -> createMarkInputRule(v, match, start, 1, "em")
    [] rule = "em_underscore" -> createMarkInputRule(v, match, start, 1, "em")
    [] rule = "code" -> createMarkInputRule(v, match, start, 1, "code")
    [] rule = "link" -> markdownLinkRule(v, match, start)
    [] rule = "autolink" -> autoLinkRule(v, match, start)
    [] rule = "horizontal_rule" -> hrRule(v)
    [] rule = "right_arrow" -> arrowRule(v, start, RightArrow)
    [] rule = "left_arrow" -> arrowRule(v, start, LeftArrow)
    [] rule = "banana" -> arrowRule(v, start, Banana)
    [] rule = "task_list" -> wrappingInputRule(v, start, "task_list", NoAttrs)

\* the number of characters of the block that run() leaves out of the text
\* it matches: all but the last 500 (MAX_MATCH) before the caret
WindowStart(chars) == IF Len(chars) > 500 THEN Len(chars) - 500 ELSE 0

\* textBefore of run(): the last 500 characters before the caret, and the
\* typed text
TextBeforeCaret(v, text) ==
  SubSeq(TextOf(v.chars), WindowStart(v.chars) + 1, Len(v.chars)) \o text

\* the transaction of a rule for the text typed in a state, null when the
\* pattern does not match or the handler returns null
RuleTransaction(rule, v, text) ==
  LET t == TextBeforeCaret(v, text)
      start == RuleMatch(rule, t)
  IN IF start = 0 THEN NoTransaction
     ELSE RuleHandler(rule, v, SubSeq(t, start, Len(t)), WindowStart(v.chars) + start)

\* the loop of run() in prosemirror-inputrules: the first rule, from the
\* i-th on, whose pattern matches and whose handler returns a transaction
RECURSIVE RunFrom(_, _, _, _)
RunFrom(rules, v, text, i) ==
  IF i > Len(rules) THEN [rule |-> "none", view |-> v]
  ELSE LET tr == RuleTransaction(rules[i], v, text)
       IN IF tr.fired
          THEN [rule |-> rules[i], view |-> tr.view]
          ELSE RunFrom(rules, v, text, i + 1)

\* run(view, from, to, text, rules) with the caret at the end of the block:
\* no rule runs in a code block
run(v, text) ==
  IF v.block.type = "code_block" THEN [rule |-> "none", view |-> v]
  ELSE RunFrom(createInputRules, v, text, 1)

\* ------------------------------------------------------------------------
\* What is typed and inserted: a script is a sequence of events, a key
\* typed or a text inserted through the editor's insertText
\* ------------------------------------------------------------------------

MaxPieces == 2

Key(c) == [kind |-> "key", text |-> <<c>>]

Insert(text) == [kind |-> "insert", text |-> text]

Keys(text) == [i \in 1..Len(text) |-> Key(text[i])]

Hashes(n) == [i \in 1..n |-> "#"]

\* the triggers of the rules, texts that come close to one, plain text
TypedPieces ==
  {Keys(p) : p \in
     {<<"#", " ">>, <<"#", "#", " ">>, Hashes(6) \o <<" ">>, Hashes(7) \o <<" ">>,
      <<"-", " ">>, <<"+", " ">>, <<"3", ".", " ">>,
      <<Backtick, Backtick, Backtick, "j", "s", " ">>,
      <<">", " ">>,
      <<"*", "*", "t", "*", "*">>, <<"_", "_", "t", "_", "_">>,
      <<"*", "t", "*">>, <<"_", "t", "_">>, <<Backtick, "t", Backtick>>,
      <<"[", "a", "]", "(", "u", ")">>,
      <<"-", "-", "-">>, <<EmDash, "-">>,
      <<"-", ">">>, <<"<", "-">>, <<"b", "a", "n", "a", "n", "a">>,
      <<"[", "]", " ">>,
      <<"a">>, <<" ">>}}

Url == <<"h", "t", "t", "p", ":", "/", "/", "x">>

\* a text of 500 characters: a letter and 499 spaces
LongText == <<"a">> \o [i \in 1..499 |-> " "]

InsertedPieces ==
  {<<Insert(Hashes(n) \o <<" ">>)>> : n \in 1..6}
    \cup {<<Insert(Url \o <<"-">>)>>, <<Insert(<<"[", "a", "]", "(">> \o Url)>>,
          <<Insert(Url \o <<"*", "a">>)>>, <<Insert(LongText)>>}

Scripts == Concats(TypedPieces \cup InsertedPieces, MaxPieces)

\* ------------------------------------------------------------------------
\* The keyboard shortcuts: DefaultShortcuts.ts and the inputs of the service
\* ------------------------------------------------------------------------

Shortcut(id, shortcutKeys, command, enabled, isDefault) ==
  [id |-> id, keys |-> shortcutKeys, command |-> command, enabled |-> enabled,
   isDefault |-> isDefault]

\* three of the entries of the literal DEFAULT_SHORTCUTS: one whose command
\* registerDefaultCommands registers, one whose command it does not
\* register, and the help shortcut
DefaultShortcutsLiteral ==
  [id \in {"toggleBold", "toggleUnderline", "showHelp"} |->
     CASE id = "toggleBold" -> Shortcut(id, <<"Mod", "b">>, "toggleBold", TRUE, TRUE)
       [] id = "toggleUnderline" ->
            Shortcut(id, <<"Mod", "u">>, "toggleUnderline", TRUE, TRUE)
       [] id = "showHelp" -> Shortcut(id, <<"Mod", "/">>, "showHelp", TRUE, TRUE)]

DefaultIds == DOMAIN DefaultShortcutsLiteral

ShortcutIds == DefaultIds \cup {"customCommand"}

\* an entry of the registry: the object of DEFAULT_SHORTCUTS under its id
\* (shared), or an object of its own
SharedEntry(id) == [shared |-> TRUE, value |-> DefaultShortcutsLiteral[id]]

OwnEntry(shortcut) == [shared |-> FALSE, value |-> shortcut]

\* this.shortcuts = { ...defaultConfig.shortcuts }: the entries are the
\* objects of DEFAULT_SHORTCUTS themselves
loadDefaultShortcuts == [id \in DefaultIds |-> SharedEntry(id)]

\* the commands registerDefaultCommands registers
registerDefaultCommands ==
  {"toggleBold", "toggleItalic", "toggleInlineCode", "setHeading1", "setHeading2",
   "setHeading3", "setHeading4", "setHeading5", "setHeading6", "toggleBulletList",
   "toggleOrderedList", "toggleCodeBlock", "insertLink", "showHelp"}

\* the shortcuts handed to addShortcut
NewShortcuts ==
  {Shortcut(id, <<"Ctrl", "x">>, command, enabled, isDefault) :
     id \in {"customCommand", "toggleBold"},
     command \in {"toggleBold", "nonExistentCommand"},
     enabled \in BOOLEAN, isDefault \in BOOLEAN}

\* the updates handed to updateShortcut
ShortcutUpdates == {[enabled |-> FALSE], [keys |-> <<"Ctrl", "y">>]}

\* the configurations handed to importConfiguration; NullConfig stands for
\* a value without a shortcuts property to read
NullConfig == [shortcuts |-> <<>>, valid |-> FALSE]

ImportedConfigs ==
  {[shortcuts |-> <<>>, valid |-> TRUE],
   [shortcuts |-> [id \in {"customCommand"} |->
                     Shortcut(id, <<"Ctrl", "x">>, "toggleBold", TRUE, FALSE)],
    valid |-> TRUE],
   [shortcuts |-> [id \in {"toggleBold"} |->
                     Shortcut(id, <<"Ctrl", "y">>, "toggleBold", FALSE, FALSE)],
    valid |-> TRUE],
   NullConfig}

\* the callbacks handed to addEventListener
Listeners == {"l1", "l2"}

\* the most callbacks registered at a time
MaxListeners == 2

\* ------------------------------------------------------------------------
\* The state machine: a value is handed to parseMarkdown, the tree it
\* returns to serializeToMarkdown, and the string that returns to
\* parseMarkdown again
\* ------------------------------------------------------------------------

VARIABLES
  input,          \* the value first handed to parseMarkdown
  pc,             \* "text": a string waits to be parsed; "tree": a tree to be serialized
  docs,           \* the trees so far, oldest first
  outs,           \* the strings serializeToMarkdown returned so far, oldest first
  sanitizedHtml,  \* the markup the last parseMarkdown call handed to the materializer
  keys,           \* the events the editor has still to receive
  view,           \* the state of the editor
  handled,        \* the event the editor handled last, with the state and the count before it
  dispatched,     \* the number of transactions the editor has dispatched
  shortcuts,      \* KeyboardShortcutService.shortcuts: the entries by id
  DEFAULT_SHORTCUTS, \* the objects of the module-level record of DefaultShortcuts.ts
  eventCallbacks, \* KeyboardShortcutService.eventCallbacks
  cleaned,        \* the callbacks whose cleanup function ran since they were added
  outcome,        \* the last call on the shortcut service: arguments, result, effects
  config,         \* which dispatch function the view has, and the optimization settings
  now,            \* Date.now(), in milliseconds since the view was created
  transactions,   \* the transactions handed to the dispatch function so far
  debouncedOperations, \* OptimizedEditorService.debouncedOperations, as a set of operations
  timeouts,       \* the pending setTimeout callbacks of debouncedDispatch, in their order
  applied,        \* the transactions handed on to view.state.apply so far
  renderQueue,    \* OptimizedEditorService.renderQueue
  isProcessingQueue, \* OptimizedEditorService.isProcessingQueue: a frame is requested
  changes,        \* the transactions whose doc onChange has received so far
  dbOpen,         \* OptimizedStorageService.db is set: indexedDB.open has succeeded
  documents,      \* the object store 'documents' under the one id: no item or one
  cache,          \* OptimizedStorageService.cache under that id: no item or one
  operationQueue, \* OptimizedStorageService.operationQueue, as the numbers of the calls
  isProcessingOperations, \* OptimizedStorageService.isProcessingQueue
  calls,          \* the save and load calls so far, each with its position and result
  clock,          \* Date.now() as performSave reads it
  written,        \* the items the completed saves have put, oldest first
  editorContent,  \* the content of the last change, as the number of the change
  autoSaveTimeout, \* the content the pending auto-save timeout will save, 0 when none
  isSaving,       \* the state isSaving of NewTab
  closureIsSaving, \* isSaving as the onSave holds it that the view's onChange reaches
  savesInFlight,  \* the contents whose storageService.save has not answered yet
  persisted       \* the contents written to storage, oldest first

vars ==
  <<input, pc, docs, outs, sanitizedHtml, keys, view, handled, dispatched,
    shortcuts, DEFAULT_SHORTCUTS, eventCallbacks, cleaned, outcome,
    config, now, transactions, debouncedOperations, timeouts, applied,
    renderQueue, isProcessingQueue, changes,
    dbOpen, documents, cache, operationQueue, isProcessingOperations, calls, clock,
    written,
    editorContent, autoSaveTimeout, isSaving, closureIsSaving, savesInFlight, persisted>>

serviceVars == <<input, pc, docs, outs, sanitizedHtml>>

editorVars == <<keys, view, handled, dispatched>>

keyboardVars == <<shortcuts, DEFAULT_SHORTCUTS, eventCallbacks, cleaned, outcome>>

dispatchVars ==
  <<config, now, transactions, debouncedOperations, timeouts, applied,
    renderQueue, isProcessingQueue, changes>>

\* the state outside the markdown service and the editor view
storageVars ==
  <<dbOpen, documents, cache, operationQueue, isProcessingOperations, calls, clock,
    written>>

autoSaveVars ==
  <<editorContent, autoSaveTimeout, isSaving, closureIsSaving, savesInFlight, persisted>>

systemVars == <<keyboardVars, dispatchVars, storageVars, autoSaveVars>>

besidesKeyboard == <<serviceVars, editorVars, dispatchVars, storageVars, autoSaveVars>>

besidesDispatch == <<serviceVars, editorVars, keyboardVars, storageVars, autoSaveVars>>

besidesStorage == <<serviceVars, editorVars, keyboardVars, dispatchVars, autoSaveVars>>

besidesAutoSave == <<serviceVars, editorVars, keyboardVars, dispatchVars, storageVars>>

\* a markdown service that is not called
ServiceIdle ==
  /\ input = Str(<<>>)
  /\ pc = "idle"
  /\ docs = <<>>
  /\ outs = <<>>
  /\ sanitizedHtml = <<>>

\* the shortcut service after its constructor
KeyboardIdle ==
  /\ shortcuts = loadDefaultShortcuts
  /\ DEFAULT_SHORTCUTS = DefaultShortcutsLiteral
  /\ eventCallbacks = <<>>
  /\ cleaned = {}
  /\ outcome = [op |-> "none"]

\* a view that is handed no transaction
DispatchIdle ==
  /\ config = [editor |-> "simple", enableDebouncing |-> FALSE, enableLazyRendering |-> FALSE]
  /\ now = 0
  /\ transactions = <<>>
  /\ debouncedOperations = {}
  /\ timeouts = <<>>
  /\ applied = <<>>
  /\ renderQueue = <<>>
  /\ isProcessingQueue = FALSE
  /\ changes = <<>>

\* the storage service after its constructor, before indexedDB.open answers
StorageIdle ==
  /\ dbOpen = FALSE
  /\ documents = <<>>
  /\ cache = <<>>
  /\ operationQueue = <<>>
  /\ isProcessingOperations = FALSE
  /\ calls = <<>>
  /\ clock = 0
  /\ written = <<>>

\* NewTab with its Editor mounted and nothing changed: the view was created
\* in the first render, where isSaving is false
AutoSaveIdle ==
  /\ editorContent = 0
  /\ autoSaveTimeout = 0
  /\ isSaving = FALSE
  /\ closureIsSaving = FALSE
  /\ savesInFlight = {}
  /\ persisted = <<>>

SystemIdle == KeyboardIdle /\ DispatchIdle /\ StorageIdle /\ AutoSaveIdle

\* an editor that receives nothing
EditorIdle ==
  /\ keys = <<>>
  /\ view = InitialView
  /\ handled = [kind |-> "none"]
  /\ dispatched = 0

\* the value the next parseMarkdown call receives
CurrentText == IF outs = <<>> THEN input ELSE Str(outs[Len(outs)])

ParseMarkdown ==
  /\ pc = "text"
  /\ Len(docs) < MaxRounds
  /\ \E sanitized \in {SanitizedHtml(CurrentText)} :
        /\ sanitizedHtml' = sanitized
        /\ docs' = Append(docs, parseMarkdown(CurrentText, sanitized))
  /\ pc' = "tree"
  /\ UNCHANGED <<input, outs>>
  /\ UNCHANGED <<editorVars, systemVars>>

SerializeToMarkdown ==
  /\ pc = "tree"
  /\ outs' = Append(outs, serializeToMarkdown(docs[Len(docs)]))
  /\ pc' = "text"
  /\ UNCHANGED <<input, docs, sanitizedHtml>>
  /\ UNCHANGED <<editorVars, systemVars>>

Next == ParseMarkdown \/ SerializeToMarkdown

Init ==
  /\ input \in MarkdownInputs
  /\ pc = "text"
  /\ docs = <<>>
  /\ outs = <<>>
  /\ sanitizedHtml = <<>>
  /\ EditorIdle
  /\ SystemIdle

Spec == Init /\ [][Next]_vars

\* the same conversions from a line that holds raw HTML
InitHtml ==
  /\ input \in HtmlInputs
  /\ pc = "text"
  /\ docs = <<>>
  /\ outs = <<>>
  /\ sanitizedHtml = <<>>
  /\ EditorIdle
  /\ SystemIdle

SpecHtml == InitHtml /\ [][Next]_vars

\* the same conversions from a tree that is handed to serializeToMarkdown
InitTree ==
  /\ input = Str(<<>>)
  /\ pc = "tree"
  /\ docs \in {<<d>> : d \in MarkedDocs}
  /\ outs = <<>>
  /\ sanitizedHtml = <<>>
  /\ EditorIdle
  /\ SystemIdle

SpecTree == InitTree /\ [][Next]_vars

\* the same conversions from a doc of one list or of a few blocks
InitBlocks ==
  /\ input = Str(<<>>)
  /\ pc = "tree"
  /\ docs \in {<<d>> : d \in ListDocs \cup BlockDocs}
  /\ outs = <<>>
  /\ sanitizedHtml = <<>>
  /\ EditorIdle
  /\ SystemIdle

SpecBlocks == InitBlocks /\ [][Next]_vars

\* the same conversions from a doc that holds nodes and marks of other types
InitForeign ==
  /\ input = Str(<<>>)
  /\ pc = "tree"
  /\ docs \in {<<d>> : d \in ForeignDocs}
  /\ outs = <<>>
  /\ sanitizedHtml = <<>>
  /\ EditorIdle
  /\ SystemIdle

SpecForeign == InitForeign /\ [][Next]_vars

\* handleTextInput of the inputRules plugin for one typed key: the rule that
\* fires dispatches its transaction and the key is not inserted; when none
\* fires the editor inserts the key
HandleTextInput ==
  /\ keys # <<>>
  /\ keys[1].kind = "key"
  /\ \E ran \in {run(view, keys[1].text)} :
        /\ view' = IF ran.rule # "none" THEN ran.view
                   ELSE [view EXCEPT !.chars = InsertAtEnd(view.chars, keys[1].text)]
        /\ handled' = [kind |-> "key", text |-> keys[1].text, before |-> view,
                       dispatched |-> dispatched, rule |-> ran.rule]
  /\ dispatched' = dispatched + 1
  /\ keys' = Tail(keys)
  /\ UNCHANGED <<serviceVars, systemVars>>

\* an insertText whose text is handed to the rules like a typed key
InsertTextThroughRules ==
  /\ keys # <<>>
  /\ keys[1].kind = "insert"
  /\ \E ran \in {run(view, keys[1].text)} :
        /\ view' = IF ran.rule # "none" THEN ran.view
                   ELSE [view EXCEPT !.chars = InsertAtEnd(view.chars, keys[1].text)]
        /\ handled' = [kind |-> "insert", text |-> keys[1].text, before |-> view,
                       dispatched |-> dispatched, rule |-> ran.rule]
  /\ dispatched' = dispatched + 1
  /\ keys' = Tail(keys)
  /\ UNCHANGED <<serviceVars, systemVars>>

\* insertText of the editor's ref: tr.insertText(text, from, to) is
\* dispatched; no plugin sees text input
InsertText ==
  /\ keys # <<>>
  /\ keys[1].kind = "insert"
  /\ view' = [view EXCEPT !.chars = InsertAtEnd(view.chars, keys[1].text)]
  /\ handled' = [kind |-> "insert", text |-> keys[1].text, before |-> view,
                 dispatched |-> dispatched, rule |-> "none"]
  /\ dispatched' = dispatched + 1
  /\ keys' = Tail(keys)
  /\ UNCHANGED <<serviceVars, systemVars>>

NextEditor == HandleTextInput \/ InsertText

\* an editor with an empty doc that receives a script
InitEditor ==
  /\ input = Str(<<>>)
  /\ pc = "idle"
  /\ docs = <<>>
  /\ outs = <<>>
  /\ sanitizedHtml = <<>>
  /\ keys \in Scripts
  /\ view = InitialView
  /\ handled = [kind |-> "none"]
  /\ dispatched = 0
  /\ SystemIdle

SpecEditor == InitEditor /\ [][NextEditor]_vars

\* ------------------------------------------------------------------------
\* The state machine of KeyboardShortcutService
\* ------------------------------------------------------------------------

\* this.shortcuts[id], read through the object it refers to
ShortcutAt(id) ==
  IF shortcuts[id].shared THEN DEFAULT_SHORTCUTS[id] ELSE shortcuts[id].value

\* the registry as the record of values that getShortcuts returns
Registry == [id \in DOMAIN shortcuts |-> ShortcutAt(id)]

\* { ...old, ...updates }
Merge(old, updates) ==
  [f \in DOMAIN old |-> IF f \in DOMAIN updates THEN updates[f] ELSE old[f]]

\* lines 154-161
AddShortcut ==
  /\ \E shortcut \in NewShortcuts :
        IF shortcut.id \in DOMAIN shortcuts
        THEN /\ shortcuts' = shortcuts
             /\ outcome' = [op |-> "addShortcut", id |-> shortcut.id, shortcut |-> shortcut,
                             returned |-> FALSE, before |-> Registry]
        ELSE /\ shortcuts' = [id \in DOMAIN shortcuts \cup {shortcut.id} |->
                                IF id = shortcut.id THEN OwnEntry(shortcut)
                                ELSE shortcuts[id]]
             /\ outcome' = [op |-> "addShortcut", id |-> shortcut.id, shortcut |-> shortcut,
                             returned |-> TRUE, before |-> Registry]
  /\ UNCHANGED <<DEFAULT_SHORTCUTS, eventCallbacks, cleaned>>
  /\ UNCHANGED besidesKeyboard

\* a removeShortcut that looks at the presence of the id only
RemoveShortcutPresent ==
  /\ \E shortcutId \in ShortcutIds :
        IF shortcutId \notin DOMAIN shortcuts
        THEN /\ shortcuts' = shortcuts
             /\ outcome' = [op |-> "removeShortcut", id |-> shortcutId,
                             returned |-> FALSE, before |-> Registry]
        ELSE /\ shortcuts' = [id \in DOMAIN shortcuts \ {shortcutId} |-> shortcuts[id]]
             /\ outcome' = [op |-> "removeShortcut", id |-> shortcutId,
                             returned |-> TRUE, before |-> Registry]
  /\ UNCHANGED <<DEFAULT_SHORTCUTS, eventCallbacks, cleaned>>
  /\ UNCHANGED besidesKeyboard

\* lines 166-173
RemoveShortcut ==
  /\ \E shortcutId \in ShortcutIds :
        IF shortcutId \notin DOMAIN shortcuts \/ ShortcutAt(shortcutId).isDefault
        THEN /\ shortcuts' = shortcuts
             /\ outcome' = [op |-> "removeShortcut", id |-> shortcutId,
                             returned |-> FALSE, before |-> Registry]
        ELSE /\ shortcuts' = [id \in DOMAIN shortcuts \ {shortcutId} |-> shortcuts[id]]
             /\ outcome' = [op |-> "removeShortcut", id |-> shortcutId,
                             returned |-> TRUE, before |-> Registry]
  /\ UNCHANGED <<DEFAULT_SHORTCUTS, eventCallbacks, cleaned>>
  /\ UNCHANGED besidesKeyboard

\* an updateShortcut that assigns the updates to the object in the registry
UpdateShortcutInPlace ==
  /\ \E shortcutId \in ShortcutIds, updates \in ShortcutUpdates :
        IF shortcutId \notin DOMAIN shortcuts
        THEN /\ UNCHANGED <<shortcuts, DEFAULT_SHORTCUTS>>
             /\ outcome' = [op |-> "updateShortcut", id |-> shortcutId, updates |-> updates,
                             returned |-> FALSE, before |-> Registry]
        ELSE /\ IF shortcuts[shortcutId].shared
                THEN /\ DEFAULT_SHORTCUTS' =
                          [DEFAULT_SHORTCUTS EXCEPT
                             ![shortcutId] = Merge(DEFAULT_SHORTCUTS[shortcutId], updates)]
                     /\ shortcuts' = shortcuts
                ELSE /\ shortcuts' =
                          [shortcuts EXCEPT
                             ![shortcutId] = OwnEntry(Merge(ShortcutAt(shortcutId), updates))]
                     /\ DEFAULT_SHORTCUTS' = DEFAULT_SHORTCUTS
             /\ outcome' = [op |-> "updateShortcut", id |-> shortcutId, updates |-> updates,
                             returned |-> TRUE, before |-> Registry]
  /\ UNCHANGED <<eventCallbacks, cleaned>>
  /\ UNCHANGED besidesKeyboard

\* lines 142-149: the entry becomes a new object
UpdateShortcut ==
  /\ \E shortcutId \in ShortcutIds, updates \in ShortcutUpdates :
        IF shortcutId \notin DOMAIN shortcuts
        THEN /\ shortcuts' = shortcuts
             /\ outcome' = [op |-> "updateShortcut", id |-> shortcutId, updates |-> updates,
                             returned |-> FALSE, before |-> Registry]
        ELSE /\ shortcuts' =
                   [shortcuts EXCEPT
                      ![shortcutId] = OwnEntry(Merge(ShortcutAt(shortcutId), updates))]
             /\ outcome' = [op |-> "updateShortcut", id |-> shortcutId, updates |-> updates,
                             returned |-> TRUE, before |-> Registry]
  /\ UNCHANGED <<DEFAULT_SHORTCUTS, eventCallbacks, cleaned>>
  /\ UNCHANGED besidesKeyboard

\* lines 289-297: reading config.shortcuts of a value without one throws,
\* which the catch turns into false
ImportConfiguration ==
  /\ \E imported \in ImportedConfigs :
        IF ~imported.valid
        THEN /\ shortcuts' = shortcuts
             /\ outcome' = [op |-> "importConfiguration", config |-> imported,
                             returned |-> FALSE, before |-> Registry]
        ELSE /\ shortcuts' = [id \in DOMAIN imported.shortcuts |->
                                OwnEntry(imported.shortcuts[id])]
             /\ outcome' = [op |-> "importConfiguration", config |-> imported,
                             returned |-> TRUE, before |-> Registry]
  /\ UNCHANGED <<DEFAULT_SHORTCUTS, eventCallbacks, cleaned>>
  /\ UNCHANGED besidesKeyboard

\* lines 302-304
ResetToDefaults ==
  /\ shortcuts' = loadDefaultShortcuts
  /\ outcome' = [op |-> "resetToDefaults", before |-> Registry]
  /\ UNCHANGED <<DEFAULT_SHORTCUTS, eventCallbacks, cleaned>>
  /\ UNCHANGED besidesKeyboard

\* lines 249-251: a callback is registered once at a time
AddEventListener ==
  /\ Len(eventCallbacks) < MaxListeners
  /\ \E callback \in Listeners :
        /\ \A i \in 1..Len(eventCallbacks) : eventCallbacks[i] # callback
        /\ eventCallbacks' = Append(eventCallbacks, callback)
        /\ cleaned' = cleaned \ {callback}
        /\ outcome' = [op |-> "addEventListener", callback |-> callback]
  /\ UNCHANGED <<shortcuts, DEFAULT_SHORTCUTS>>
  /\ UNCHANGED besidesKeyboard

\* lines 253-258: the cleanup function addEventListener returned for a
\* callback, called the first time
Cleanup ==
  /\ \E callback \in Listeners :
        /\ \E i \in 1..Len(eventCallbacks) : eventCallbacks[i] = callback
        /\ eventCallbacks' = SelectSeq(eventCallbacks, LAMBDA c : c # callback)
        /\ cleaned' = cleaned \cup {callback}
        /\ outcome' = [op |-> "cleanup", callback |-> callback]
  /\ UNCHANGED <<shortcuts, DEFAULT_SHORTCUTS>>
  /\ UNCHANGED besidesKeyboard

\* lines 264-272: the calls of the callbacks, in their order
notifyEventListeners(shortcutId, success) ==
  [i \in 1..Len(eventCallbacks) |->
     [callback |-> eventCallbacks[i], id |-> shortcutId, success |-> success]]

\* what a registered command does when called with the view: the commands
\* of registerDefaultCommands return what the editor command returns or
\* throw with it; showHelp notifies the listeners itself and returns true
CommandResults(command) ==
  IF command = "showHelp" THEN {"true"} ELSE {"true", "false", "throws"}

CommandNotifies(command) ==
  IF command = "showHelp" THEN notifyEventListeners("showHelp", TRUE) ELSE <<>>

\* lines 185-206
ExecuteShortcut ==
  /\ \E shortcutId \in ShortcutIds :
        IF \/ shortcutId \notin DOMAIN shortcuts
           \/ ~ShortcutAt(shortcutId).enabled
           \/ ShortcutAt(shortcutId).command \notin registerDefaultCommands
        THEN outcome' = [op |-> "executeShortcut", id |-> shortcutId, returned |-> FALSE,
                         invoked |-> <<>>, notified |-> <<>>,
                         listeners |-> eventCallbacks, before |-> Registry]
        ELSE \E result \in CommandResults(ShortcutAt(shortcutId).command) :
               outcome' = [op |-> "executeShortcut", id |-> shortcutId,
                           returned |-> (result = "true"),
                           invoked |-> <<[command |-> ShortcutAt(shortcutId).command,
                                          result |-> result]>>,
                           notified |-> CommandNotifies(ShortcutAt(shortcutId).command)
                                        \o notifyEventListeners(shortcutId, result = "true"),
                           listeners |-> eventCallbacks, before |-> Registry]
  /\ UNCHANGED <<shortcuts, DEFAULT_SHORTCUTS, eventCallbacks, cleaned>>
  /\ UNCHANGED besidesKeyboard

\* the calls of the tests on shortcuts and listeners: no configuration call
NextKeyboard ==
  AddShortcut \/ RemoveShortcut \/ ExecuteShortcut \/ AddEventListener \/ Cleanup

InitKeyboard ==
  ServiceIdle /\ EditorIdle /\ KeyboardIdle /\ DispatchIdle /\ StorageIdle /\ AutoSaveIdle

SpecKeyboard == InitKeyboard /\ [][NextKeyboard]_vars

\* the calls that change the registry
NextConfiguration ==
  \/ AddShortcut
  \/ RemoveShortcut
  \/ UpdateShortcut
  \/ ImportConfiguration
  \/ ResetToDefaults

SpecConfiguration == InitKeyboard /\ [][NextConfiguration]_vars

\* ------------------------------------------------------------------------
\* The dispatch functions: dispatchTransaction of SimpleProseMirrorEditor
\* and the optimized dispatch of OptimizedEditorService
\* ------------------------------------------------------------------------

\* the most transactions handed to a view
MaxTransactions == 3

\* the last millisecond the clock reaches
MaxTime == 18

\* config.debounceDelay and config.renderBatchSize of the constructor
debounceDelay == 16

renderBatchSize == 10

\* what classifyTransaction and the dispatch functions read of a
\* transaction: a replaced range of 0 or 10 positions, a moved selection,
\* a transaction that changes neither
TransactionKinds ==
  {[docChanged |-> TRUE, selectionSet |-> TRUE, changeSize |-> 0],
   [docChanged |-> TRUE, selectionSet |-> TRUE, changeSize |-> 10],
   [docChanged |-> FALSE, selectionSet |-> TRUE, changeSize |-> 0],
   [docChanged |-> FALSE, selectionSet |-> FALSE, changeSize |-> 0]}

\* the n-th transaction handed to the view
NthTransaction(n, kind) ==
  [n |-> n, docChanged |-> kind.docChanged, selectionSet |-> kind.selectionSet,
   changeSize |-> kind.changeSize]

\* part_002 lines 1054-1068
classifyTransaction(transaction) ==
  IF transaction.docChanged
  THEN IF transaction.changeSize < 10 THEN "formatting" ELSE "content"
  ELSE IF transaction.selectionSet THEN "selection" ELSE "formatting"

\* part_002 lines 993-1012 with queueRender and processRenderQueue (lines
\* 1071-1086, 1112): the transaction goes to originalDispatch, and its doc
\* to onChange, at once or through the render queue and a requested frame
immediateDispatch(transaction) ==
  /\ applied' = Append(applied, transaction.n)
  /\ IF transaction.docChanged /\ config.enableLazyRendering
     THEN /\ renderQueue' = Append(renderQueue, transaction.n)
          /\ isProcessingQueue' = TRUE
          /\ changes' = changes
     ELSE /\ changes' = IF transaction.docChanged THEN Append(changes, transaction.n)
                        ELSE changes
          /\ UNCHANGED <<renderQueue, isProcessingQueue>>

\* part_002 lines 1015-1051: the operation of the same type is deleted, the
\* new one stored under `${operationType}_${Date.now()}` and a timeout set
debouncedDispatch(transaction) ==
  LET operationType == classifyTransaction(transaction)
      operationId == <<operationType, now>>
  IN /\ debouncedOperations' =
          {op \in debouncedOperations : op.type # operationType /\ op.id # operationId}
            \cup {[id |-> operationId, type |-> operationType, transaction |-> transaction]}
     /\ timeouts' = Append(timeouts, [id |-> operationId, due |-> now + debounceDelay])
     /\ UNCHANGED <<applied, renderQueue, isProcessingQueue, changes>>

\* part_005 lines 193-202: view.state.apply, view.updateState, onChange
DispatchTransaction ==
  /\ config.editor = "simple"
  /\ Len(transactions) < MaxTransactions
  /\ \E kind \in TransactionKinds :
        LET transaction == NthTransaction(Len(transactions) + 1, kind)
        IN /\ transactions' = Append(transactions, transaction)
           /\ applied' = Append(applied, transaction.n)
           /\ changes' = IF transaction.docChanged THEN Append(changes, transaction.n)
                          ELSE changes
  /\ UNCHANGED <<config, now, debouncedOperations, timeouts, renderQueue, isProcessingQueue>>
  /\ UNCHANGED besidesDispatch

\* part_002 lines 977-989: the function createOptimizedDispatch returns
OptimizedDispatch ==
  /\ config.editor = "optimized"
  /\ Len(transactions) < MaxTransactions
  /\ \E kind \in TransactionKinds :
        LET transaction == NthTransaction(Len(transactions) + 1, kind)
        IN /\ transactions' = Append(transactions, transaction)
           /\ IF config.enableDebouncing
              THEN debouncedDispatch(transaction)
              ELSE immediateDispatch(transaction) /\ UNCHANGED <<debouncedOperations, timeouts>>
  /\ UNCHANGED <<config, now>>
  /\ UNCHANGED besidesDispatch

\* part_002 lines 1045-1050 and 1036-1039: the oldest timeout that is due
\* runs the callback of its operation when the operation is still stored
Timeout ==
  /\ timeouts # <<>>
  /\ Head(timeouts).due <= now
  /\ timeouts' = Tail(timeouts)
  /\ LET ops == {op \in debouncedOperations : op.id = Head(timeouts).id}
     IN IF ops = {}
        THEN UNCHANGED <<debouncedOperations, applied, renderQueue, isProcessingQueue, changes>>
        ELSE /\ immediateDispatch((CHOOSE op \in ops : TRUE).transaction)
             /\ debouncedOperations' = debouncedOperations \ ops
  /\ UNCHANGED <<config, now, transactions>>
  /\ UNCHANGED besidesDispatch

\* part_002 lines 1088-1110: processOperations in the requested frame
ProcessOperations ==
  /\ isProcessingQueue
  /\ LET size == IF Len(renderQueue) < renderBatchSize THEN Len(renderQueue)
                 ELSE renderBatchSize
     IN /\ changes' = changes \o SubSeq(renderQueue, 1, size)
        /\ renderQueue' = SubSeq(renderQueue, size + 1, Len(renderQueue))
        /\ isProcessingQueue' = (size < Len(renderQueue))
  /\ UNCHANGED <<config, now, transactions, debouncedOperations, timeouts, applied>>
  /\ UNCHANGED besidesDispatch

\* a millisecond passes
Tick ==
  /\ now < MaxTime
  /\ now' = now + 1
  /\ UNCHANGED <<config, transactions, debouncedOperations, timeouts, applied,
                 renderQueue, isProcessingQueue, changes>>
  /\ UNCHANGED besidesDispatch

NextDispatch ==
  DispatchTransaction \/ OptimizedDispatch \/ Timeout \/ ProcessOperations \/ Tick

\* a view of SimpleProseMirrorEditor, or one of createOptimizedView under
\* the settings configure() can set
InitDispatch ==
  /\ ServiceIdle
  /\ EditorIdle
  /\ KeyboardIdle
  /\ StorageIdle
  /\ AutoSaveIdle
  /\ config \in
       {[editor |-> "simple", enableDebouncing |-> FALSE, enableLazyRendering |-> FALSE]}
         \cup {[editor |-> "optimized", enableDebouncing |-> d, enableLazyRendering |-> l] :
                 d \in BOOLEAN, l \in BOOLEAN}
  /\ now = 0
  /\ transactions = <<>>
  /\ debouncedOperations = {}
  /\ timeouts = <<>>
  /\ applied = <<>>
  /\ renderQueue = <<>>
  /\ isProcessingQueue = FALSE
  /\ changes = <<>>

SpecDispatch == InitDispatch /\ [][NextDispatch]_vars

\* ------------------------------------------------------------------------
\* The state machine of OptimizedStorageService, for one document id
\* ------------------------------------------------------------------------

\* the most save and load calls
MaxCalls == 3

\* config.maxRetries and config.compressionThreshold of the constructor
maxRetries == 3

compressionThreshold == 1024

\* a content: a text of some length, as it is or as compress returns it
\* (under the prefix GZIP: or DICT:)
Content(text, length) == [encoding |-> "plain", text |-> text, length |-> length]

Contents == {Content("note", 4), Content("essay", 2048)}

\* memory.ts lines 478-507: the compressed string and compressionRatio >
\* 1.1, taking the compressed size as 20 characters and half the text
compress(content) ==
  [compressed |-> [encoding |-> "gzip", text |-> content.text, length |-> content.length],
   worthwhile |-> 10 * content.length > 11 * (20 + content.length \div 2)]

\* memory.ts lines 510-537: what decompress makes of a stored content
decompress(content) == [content EXCEPT !.encoding = "plain"]

\* part_003 lines 172-196: the item performSave builds at the time given
StorageItem(call, time) ==
  LET shouldCompress == IF call.compress = "undefined"
                        THEN call.content.length >= compressionThreshold
                        ELSE call.compress = "true"
      compressed == shouldCompress /\ compress(call.content).worthwhile
  IN [content |-> IF compressed THEN compress(call.content).compressed ELSE call.content,
      created |-> time, version |-> 1, compressed |-> compressed]

\* a call as it is made
NewCall(type, content, background, compressOption, useCache) ==
  [type |-> type, content |-> content, background |-> background,
   compress |-> compressOption, useCache |-> useCache, pc |-> "queued", retryCount |-> 0,
   item |-> <<>>, result |-> <<>>]

\* part_003 lines 364-374: the catch of processQueue
FailOperation(call) ==
  IF call.retryCount < maxRetries
  THEN [call EXCEPT !.retryCount = @ + 1, !.pc = "waiting"]
  ELSE [call EXCEPT !.pc = "rejected"]

\* performSave and performLoad up to their first request to an open
\* database
BeginOperation(call, time) ==
  IF call.type = "save"
  THEN [call EXCEPT !.pc = "read", !.item = <<StorageItem(call, time)>>]
  ELSE [call EXCEPT !.pc = "loading"]

\* part_003 lines 334-379: the loop of processQueue from its top until it
\* awaits a request or the queue is empty; without a database every
\* operation of the queue fails in its turn
processQueue(cs, queue) ==
  IF queue = <<>>
  THEN [calls |-> cs, queue |-> <<>>, processing |-> FALSE, clock |-> clock]
  ELSE IF dbOpen
  THEN [calls |-> [cs EXCEPT ![Head(queue)] = BeginOperation(@, clock + 1)],
        queue |-> Tail(queue), processing |-> TRUE, clock |-> clock + 1]
  ELSE [calls |-> [n \in DOMAIN cs |->
                     IF \E i \in 1..Len(queue) : queue[i] = n THEN FailOperation(cs[n])
                     ELSE cs[n]],
        queue |-> <<>>, processing |-> FALSE, clock |-> clock]

\* part_003 lines 317-332 with the call of processQueue in it; every
\* operation has the priority 'normal', so the sort keeps the order
queueBackgroundOperation(call) ==
  LET n == Len(calls) + 1
      queued == Append(operationQueue, n)
      next == IF isProcessingOperations
              THEN [calls |-> Append(calls, call), queue |-> queued, processing |-> TRUE,
                    clock |-> clock]
              ELSE processQueue(Append(calls, call), queued)
  IN /\ calls' = next.calls
     /\ operationQueue' = next.queue
     /\ isProcessingOperations' = next.processing
     /\ clock' = next.clock

\* the end of an operation that processQueue awaited, and the loop after it
ContinueQueue(cs) ==
  LET next == processQueue(cs, operationQueue)
  IN /\ calls' = next.calls
     /\ operationQueue' = next.queue
     /\ isProcessingOperations' = next.processing
     /\ clock' = next.clock

\* part_003 lines 92-133: request.onsuccess of indexedDB.open
OpenDatabase ==
  /\ ~dbOpen
  /\ dbOpen' = TRUE
  /\ UNCHANGED <<documents, cache, operationQueue, isProcessingOperations, calls, clock,
                 written>>
  /\ UNCHANGED besidesStorage

\* part_003 lines 136-159, and performSave up to its first request
Save ==
  /\ Len(calls) < MaxCalls
  /\ \E content \in Contents, background \in BOOLEAN :
        LET call == NewCall("save", content, background, "undefined", FALSE)
        IN IF background
           THEN queueBackgroundOperation(call)
           ELSE /\ calls' = Append(calls, IF dbOpen THEN BeginOperation(call, clock + 1)
                                           ELSE [call EXCEPT !.pc = "rejected"])
                /\ clock' = IF dbOpen THEN clock + 1 ELSE clock
                /\ UNCHANGED <<operationQueue, isProcessingOperations>>
  /\ UNCHANGED <<dbOpen, documents, cache, written>>
  /\ UNCHANGED besidesStorage

\* part_003 lines 199-203: the answer of getFromDatabase
ReadExisting ==
  /\ \E n \in 1..Len(calls) :
        /\ calls[n].pc = "read"
        /\ calls' =
             [calls EXCEPT
                ![n].pc = "write",
                ![n].item =
                  IF documents = <<>> THEN @
                  ELSE <<[@[1] EXCEPT !.created = documents[1].created,
                                      !.version = documents[1].version + 1]>>]
  /\ UNCHANGED <<dbOpen, documents, cache, operationQueue, isProcessingOperations, clock,
                 written>>
  /\ UNCHANGED besidesStorage

\* part_003 lines 205-214 and 279-295: the answer of saveToDatabase and
\* updateCache
WriteItem ==
  /\ \E n \in 1..Len(calls) :
        /\ calls[n].pc = "write"
        /\ documents' = calls[n].item
        /\ cache' = calls[n].item
        /\ written' = Append(written, calls[n].item[1])
        /\ LET done == [calls EXCEPT ![n].pc = "resolved", ![n].result = calls[n].item]
           IN IF calls[n].background THEN ContinueQueue(done)
              ELSE /\ calls' = done
                   /\ UNCHANGED <<operationQueue, isProcessingOperations, clock>>
  /\ UNCHANGED dbOpen
  /\ UNCHANGED besidesStorage

\* part_003 lines 407-421: the entry is there and younger than cacheTTL
CacheHit(useCache, fresh) == useCache /\ cache # <<>> /\ fresh

\* part_003 lines 221-251, and performLoad up to its request
Load ==
  /\ Len(calls) < MaxCalls
  /\ \E useCache \in BOOLEAN, background \in BOOLEAN, fresh \in BOOLEAN :
        LET call == NewCall("load", Content("", 0), background, "undefined", useCache)
        IN /\ cache' = IF useCache /\ ~fresh THEN <<>> ELSE cache
           /\ IF CacheHit(useCache, fresh)
              THEN /\ calls' = Append(calls, [call EXCEPT !.pc = "resolved", !.result = cache])
                   /\ UNCHANGED <<operationQueue, isProcessingOperations, clock>>
              ELSE IF background
              THEN queueBackgroundOperation(call)
              ELSE /\ calls' = Append(calls, IF dbOpen THEN BeginOperation(call, clock)
                                              ELSE [call EXCEPT !.pc = "rejected"])
                   /\ UNCHANGED <<operationQueue, isProcessingOperations, clock>>
  /\ UNCHANGED <<dbOpen, documents, written>>
  /\ UNCHANGED besidesStorage

\* part_003 lines 254-276: the answer of getFromDatabase to performLoad
LoadItem ==
  /\ \E n \in 1..Len(calls) :
        /\ calls[n].pc = "loading"
        /\ LET item == IF documents = <<>> THEN <<>>
                       ELSE IF documents[1].compressed
                       THEN <<[documents[1] EXCEPT !.content = decompress(@)]>>
                       ELSE documents
               done == [calls EXCEPT ![n].pc = "resolved", ![n].result = item]
           IN /\ cache' = IF item = <<>> THEN cache ELSE item
              /\ IF calls[n].background THEN ContinueQueue(done)
                 ELSE /\ calls' = done
                      /\ UNCHANGED <<operationQueue, isProcessingOperations, clock>>
  /\ UNCHANGED <<dbOpen, documents, written>>
  /\ UNCHANGED besidesStorage

\* part_003 lines 369-371: the timeout of a retry
RetryTimeout ==
  /\ \E n \in 1..Len(calls) :
        /\ calls[n].pc = "waiting"
        /\ calls' = [calls EXCEPT ![n].pc = "queued"]
        /\ operationQueue' = <<n>> \o operationQueue
  /\ UNCHANGED <<dbOpen, documents, cache, isProcessingOperations, clock, written>>
  /\ UNCHANGED besidesStorage

NextStorage ==
  OpenDatabase \/ Save \/ ReadExisting \/ WriteItem \/ Load \/ LoadItem \/ RetryTimeout

InitStorage ==
  ServiceIdle /\ EditorIdle /\ KeyboardIdle /\ DispatchIdle /\ StorageIdle /\ AutoSaveIdle

SpecStorage == InitStorage /\ [][NextStorage]_vars

\* the same service where indexedDB.open succeeds in the end, every request
\* to the database is answered and every timeout runs; calls are made or not
SpecStorageFair ==
  /\ InitStorage
  /\ [][NextStorage]_vars
  /\ WF_vars(ReadExisting)
  /\ WF_vars(WriteItem)
  /\ WF_vars(LoadItem)
  /\ WF_vars(RetryTimeout)
  /\ WF_vars(OpenDatabase)

\* ------------------------------------------------------------------------
\* Auto-save: useEditor.handleContentChange with the onSave of NewTab
\* ------------------------------------------------------------------------

\* the most content changes
MaxChanges == 4

\* isSaving as the state of NewTab has it now
isSavingOfState == isSaving

\* isSaving as onSave reads it (memory.ts line 1036): the view is created
\* once (part_005 lines 78-310, an effect without dependencies), so its
\* dispatchTransaction keeps the onChange, and through it the
\* handleContentChange and the onSave, of that render
isSavingOfOnSave == closureIsSaving

\* part_005 lines 193-202 and part_001 lines 58-101: a transaction that
\* changes the doc reaches handleContentChange, which clears the pending
\* timeout and sets one for the new content
HandleContentChange ==
  /\ editorContent < MaxChanges
  /\ editorContent' = editorContent + 1
  /\ autoSaveTimeout' = editorContent + 1
  /\ UNCHANGED <<isSaving, closureIsSaving, savesInFlight, persisted>>
  /\ UNCHANGED besidesAutoSave

\* part_001 lines 83-85 and memory.ts lines 1035-1048: the timeout calls
\* onSave, which returns at once when it reads isSaving as true and
\* otherwise sets isSaving and calls storageService.save
AutoSaveTimeout ==
  /\ autoSaveTimeout # 0
  /\ autoSaveTimeout' = 0
  /\ IF isSavingOfOnSave
     THEN UNCHANGED <<isSaving, savesInFlight>>
     ELSE /\ isSaving' = TRUE
          /\ savesInFlight' = savesInFlight \cup {autoSaveTimeout}
  /\ UNCHANGED <<editorContent, closureIsSaving, persisted>>
  /\ UNCHANGED besidesAutoSave

\* memory.ts lines 1043-1055: storageService.save answers, the content is
\* in the store, and the finally block resets isSaving
SaveAnswers ==
  /\ \E saved \in savesInFlight :
        /\ savesInFlight' = savesInFlight \ {saved}
        /\ persisted' = Append(persisted, saved)
  /\ isSaving' = FALSE
  /\ UNCHANGED <<editorContent, autoSaveTimeout, closureIsSaving>>
  /\ UNCHANGED besidesAutoSave

NextAutoSave == HandleContentChange \/ AutoSaveTimeout \/ SaveAnswers

InitAutoSave ==
  ServiceIdle /\ EditorIdle /\ KeyboardIdle /\ DispatchIdle /\ StorageIdle /\ AutoSaveIdle

\* a pending timeout runs and a save that was called answers; the user
\* changes the content or not
SpecAutoSave ==
  /\ InitAutoSave
  /\ [][NextAutoSave]_vars
  /\ WF_vars(AutoSaveTimeout)
  /\ WF_vars(SaveAnswers)

\* ------------------------------------------------------------------------
\* The content expressions of simpleEditorSchema
\* ------------------------------------------------------------------------

BlockTypes ==
  {"paragraph", "heading", "blockquote", "code_block", "horizontal_rule",
   "bullet_list", "ordered_list", "task_list"}


\* inline*: text nodes that are not empty, whose marks are a set in schema
\* order, adjacent ones differing in their marks
ValidInline(content) ==
  /\ \A i \in 1..Len(content) :
        /\ content[i].type = "text"
        /\ content[i].text # <<>>
        /\ \A j \in 1..Len(content[i].marks) - 1 :
              MarkRank(content[i].marks[j].type) < MarkRank(content[i].marks[j + 1].type)
  /\ \A i \in 1..Len(content) - 1 : content[i].marks # content[i + 1].marks

RECURSIVE ValidNode(_)
ValidNode(n) ==
  LET kids == n.content
      each == \A i \in 1..Len(kids) : ValidNode(kids[i])
      allOf(types) == \A i \in 1..Len(kids) : kids[i].type \in types
  IN CASE n.type \in {"doc", "blockquote"} ->
            Len(kids) >= 1 /\ allOf(BlockTypes) /\ each
       [] n.type = "paragraph" -> ValidInline(kids)
       [] n.type = "heading" -> n.attrs.level \in 1..6 /\ ValidInline(kids)
       [] n.type = "code_block" ->
            ValidInline(kids) /\ \A i \in 1..Len(kids) : kids[i].marks = <<>>
       [] n.type \in {"bullet_list", "ordered_list"} ->
            Len(kids) >= 1 /\ allOf({"list_item"}) /\ each
       [] n.type = "task_list" ->
            Len(kids) >= 1 /\ allOf({"task_list_item"}) /\ each
       [] n.type \in {"list_item", "task_list_item"} ->
            /\ Len(kids) >= 1
            /\ kids[1].type = "paragraph"
            /\ allOf(BlockTypes)
            /\ each
       [] n.type = "horizontal_rule" -> kids = <<>>
       [] OTHER -> FALSE

\* a doc that holds one empty paragraph and nothing else
IsEmptyDocument(d) ==
  /\ d.type = "doc"
  /\ Len(d.content) = 1
  /\ d.content[1].type = "paragraph"
  /\ d.content[1].content = <<>>

\* ------------------------------------------------------------------------
\* Round trips
\* ------------------------------------------------------------------------

\* C1: for every tree D that parseMarkdown returns,
\* serialize(parse(serialize(D))) = serialize(D)
C1_RoundTripIdempotent == Len(outs) >= 2 => outs[2] = outs[1]

\* C2: for every input s, with D = parse(s), parse(serialize(D)) is a tree
\* equal to D
C2_SerializerInvertsParser == Len(docs) >= 2 => docs[2] = docs[1]

\* ------------------------------------------------------------------------
\* parseMarkdown never raises
\* ------------------------------------------------------------------------

\* C3: whatever it is handed (a string, the empty string, null, a value
\* that is no string), parseMarkdown returns (pc is then "tree") a doc that
\* satisfies the content expressions of the schema, and the doc is the empty
\* document when a step inside it threw or the text was empty
C3_ParseReturnsValidDoc ==
  pc = "tree" =>
    /\ docs[Len(docs)].type = "doc"
    /\ ValidNode(docs[Len(docs)])
    /\ (CurrentText.kind # "string" \/ CurrentText.s = <<>>)
          => IsEmptyDocument(docs[Len(docs)])

\* a value that is no string was handed in and parseMarkdown has returned
C3_Witness == input.kind = "null" /\ Len(docs) >= 1


\* ------------------------------------------------------------------------
\* Line classification
\* ------------------------------------------------------------------------

\* the patterns in the order the specification declares them
RulePattern(k, t) ==
  CASE k = 1 -> t = <<>>
    [] k = 2 -> MatchHeading(t) > 0
    [] k = 3 -> MatchFence(t) > 0
    [] k = 4 -> MatchTaskUnchecked(t) > 0
    [] k = 5 -> MatchTaskChecked(t) > 0
    [] k = 6 -> MatchOrdered(t) > 0
    [] k = 7 -> MatchUnordered(t) > 0
    [] k = 8 -> MatchBlockquote(t) > 0
    [] k = 9 -> MatchHr(t) > 0
    [] OTHER -> TRUE

\* the block type each rule stands for, in the declared order
RuleBlockTypes ==
  << "paragraph", "heading", "code_block", "task_list", "task_list", "ordered_list",
     "bullet_list", "blockquote", "horizontal_rule", "paragraph" >>

RuleBlockType(k) == RuleBlockTypes[k]

RuleCount == Len(RuleBlockTypes)

\* the earliest rule whose pattern matches the trimmed line
EarliestRule(t) ==
  CHOOSE k \in 1..RuleCount :
    RulePattern(k, t) /\ \A j \in 1..(k - 1) : ~RulePattern(j, t)

\* the number of rules whose pattern matches the trimmed line
MatchingRules(t) == Cardinality({k \in 1..RuleCount : RulePattern(k, t)})

\* the lines before the first fence-open line (all of them when there is none)
LinesBeforeFence(lines) ==
  LET candidates == {i \in 1..Len(lines) : EarliestRule(Trim(lines[i])) = 3}
  IN IF candidates = {} THEN Len(lines)
     ELSE (CHOOSE i \in candidates : \A j \in candidates : i <= j) - 1

\* C4: when parseMarkdown has returned, every line outside a fenced block
\* of the text it was handed has become the block of the earliest rule, in
\* the declared order, whose pattern matches it; a task line is a task item
\* with the checked state of its rule, never a bullet item, and a fence-open
\* line starts a code_block
C4_FirstMatchingRule ==
  (pc = "tree" /\ CurrentText.kind = "string" /\ CurrentText.s # <<>>) =>
    LET lines == Split(CurrentText.s)
        blocks == docs[Len(docs)].content
        n == LinesBeforeFence(lines)
    IN /\ Len(blocks) >= n
       /\ \A i \in 1..n :
            LET k == EarliestRule(Trim(lines[i]))
            IN /\ blocks[i].type = RuleBlockType(k)
               /\ k \in {4, 5} => blocks[i].content[1].attrs.checked = (k = 5)
       /\ n < Len(lines) => Len(blocks) > n /\ blocks[n + 1].type = "code_block"

\* a line that the task pattern, the unordered-list pattern and the
\* paragraph fallback all match has been parsed
C4_Witness ==
  /\ input.kind = "string"
  /\ input.s = <<"-", " ", "[", " ", "]", " ", "a">>
  /\ MatchingRules(input.s) >= 3
  /\ Len(docs) >= 1
  /\ docs[1].content[1].type = "task_list"

\* ------------------------------------------------------------------------
\* Headings and task items
\* ------------------------------------------------------------------------

\* text without characters that markdown or HTML gives a meaning
IsPlainText(t) == t # <<>> /\ \A i \in 1..Len(t) : t[i] \in {"a", "b", "c", " "}

\* no white space at either end and no two white-space characters in a row
IsSingleSpaced(t) ==
  /\ t # <<>>
  /\ ~IsWs(t[1])
  /\ ~IsWs(t[Len(t)])
  /\ \A i \in 1..Len(t) - 1 : ~(IsWs(t[i]) /\ IsWs(t[i + 1]))

SingleLine(s) == \A i \in 1..Len(s) : s[i] # "\n"

\* a doc of one block that is a textblock of one unmarked text t
IsDocOfText(d, type, t) ==
  /\ Len(d.content) = 1
  /\ d.content[1].type = type
  /\ d.content[1].content = <<TextNode(t, <<>>)>>

\* the input is '#' x level, one space, and t
IsHeadingInput(level, t) ==
  /\ input.kind = "string"
  /\ SingleLine(input.s)
  /\ input.s = Repeat("#", level) \o <<" ">> \o t

HeadingRoundTrip(level, t) ==
  /\ Len(docs) >= 1 =>
       /\ IsDocOfText(docs[1], "heading", t)
       /\ docs[1].content[1].attrs.level = level
  /\ Len(outs) >= 1 => outs[1] = input.s

\* the text after the first k atoms of the input
InputFrom(k) == Slice(input.s, k + 1, Len(input.s))

IsTaskInput(box, t) ==
  /\ input.kind = "string"
  /\ SingleLine(input.s)
  /\ input.s = <<"-", " ", "[", box, "]", " ">> \o t

TaskRoundTrip(box, t) ==
  /\ Len(docs) >= 1 =>
       /\ Len(docs[1].content) = 1
       /\ docs[1].content[1].type = "task_list"
       /\ Len(docs[1].content[1].content) = 1
       /\ docs[1].content[1].content[1].type = "task_list_item"
       /\ docs[1].content[1].content[1].attrs.checked = (box \in {"x", "X"})
       /\ IsDocOfText(docs[1].content[1].content[1], "paragraph", t)
  /\ Len(outs) >= 1 =>
       outs[1] = <<"-", " ", "[", IF box = " " THEN " " ELSE "x", "]", " ">> \o t

C10_EmptyDocument ==
  /\ (input = Str(<<>>) /\ Len(docs) >= 1)
        => IsEmptyDocument(docs[1]) /\ ValidNode(docs[1])
  /\ \A i \in 1..Len(outs) : IsEmptyDocument(docs[i]) => outs[i] = <<>>

\* the empty string has been parsed and the empty doc serialized
C10_Witness == input = Str(<<>>) /\ Len(outs) >= 1 /\ IsEmptyDocument(docs[1])

\* ------------------------------------------------------------------------
\* The allow-list
\* ------------------------------------------------------------------------

RECURSIVE WrapTags(_)
WrapTags(leaves) ==
  IF leaves = <<>> THEN {}
  ELSE {Head(leaves).wraps[i].tag : i \in 1..Len(Head(leaves).wraps)}
       \cup (IF Head(leaves).kind = "script" THEN {"script"} ELSE {})
       \cup WrapTags(Tail(leaves))

RECURSIVE WrapAttrs(_)
WrapAttrs(leaves) ==
  IF leaves = <<>> THEN {}
  ELSE UNION {{Head(leaves).wraps[i].attrs[j].name :
                 j \in 1..Len(Head(leaves).wraps[i].attrs)} :
              i \in 1..Len(Head(leaves).wraps)}
       \cup WrapAttrs(Tail(leaves))

\* the tag names of the elements of a markup
RECURSIVE TagsOf(_)
TagsOf(dom) ==
  IF dom = <<>> THEN {}
  ELSE {Head(dom).tag} \cup WrapTags(Head(dom).leaves) \cup TagsOf(Head(dom).kids)
       \cup TagsOf(Tail(dom))

\* the attribute names of the elements of a markup
RECURSIVE AttrNamesOf(_)
AttrNamesOf(dom) ==
  IF dom = <<>> THEN {}
  ELSE {Head(dom).attrs[i].name : i \in 1..Len(Head(dom).attrs)}
       \cup WrapAttrs(Head(dom).leaves) \cup AttrNamesOf(Head(dom).kids)
       \cup AttrNamesOf(Tail(dom))

ListedTags ==
  {"h1", "h2", "h3", "h4", "h5", "h6", "p", "strong", "em", "code", "pre",
   "ul", "ol", "li", "blockquote", "a", "hr"}

ListedAttrs == {"href", "data-language", "data-type", "data-checked", "class"}

\* C6 as stated: in the markup handed to the materializer every element is
\* one of the listed tags and every attribute is one of href, data-language,
\* data-type, data-checked, class
C6_ExactAllowList ==
  /\ TagsOf(sanitizedHtml) \subseteq ListedTags
  /\ AttrNamesOf(sanitizedHtml) \subseteq ListedAttrs

\* C6 as amended: every element is one of the listed tags, and every
\* attribute is one of the five listed names or some other data-* or
\* aria-* attribute
C6_AllowList ==
  /\ TagsOf(sanitizedHtml) \subseteq ListedTags
  /\ \A name \in AttrNamesOf(sanitizedHtml) :
        name \in ListedAttrs \/ IsDataAttr(name) \/ IsAriaAttr(name)

\* <em onclick="x">a has been sanitized: the em stays, without the onclick
C6_Witness ==
  /\ input = Str(<<"<em onclick=\"x\">", "a">>)
  /\ Len(docs) >= 1
  /\ "em" \in TagsOf(sanitizedHtml)
  /\ AttrNamesOf(sanitizedHtml) = {}

\* ------------------------------------------------------------------------
\* Script content
\* ------------------------------------------------------------------------

ScriptAtoms == {"<script>", "</script>", "alert"}

HoldsScript(s) == \E i \in 1..Len(s) : s[i] \in ScriptAtoms

\* the input holds <script>alert(1)</script>
EmbedsScript(s) ==
  \E i \in 1..Len(s) : i + Len(Script) - 1 <= Len(s) /\ SubSeq(s, i, i + Len(Script) - 1) = Script

\* some text of the tree holds a piece of the script
RECURSIVE TextHoldsScript(_)
TextHoldsScript(n) ==
  \/ n.type = "text" /\ HoldsScript(n.text)
  \/ \E i \in 1..Len(n.content) : TextHoldsScript(n.content[i])

\* some element of the sanitized markup is a script element
ScriptElementIn(dom) == "script" \in TagsOf(dom)

\* C5: for every input line that embeds <script>alert(1)</script>, in any
\* block kind, no script element reaches the tree, no text of the tree holds
\* a piece of the script, and the string serialized from the tree holds none
C5_NoScriptContent ==
  (input.kind = "string" /\ EmbedsScript(input.s)) =>
    /\ Len(docs) >= 1 => ~ScriptElementIn(sanitizedHtml) /\ ~TextHoldsScript(docs[1])
    /\ Len(outs) >= 1 => ~HoldsScript(outs[1])

\* ------------------------------------------------------------------------
\* The order of the marks
\* ------------------------------------------------------------------------

\* the marks without the link mark, in their order
RECURSIVE OtherMarks(_)
OtherMarks(marks) ==
  IF marks = <<>> THEN <<>>
  ELSE (IF Head(marks).type = "link" THEN <<>> ELSE <<Head(marks)>>)
       \o OtherMarks(Tail(marks))

\* the text inside the delimiters of the marks, the first mark innermost
RECURSIVE Delimited(_, _)
Delimited(text, marks) ==
  IF marks = <<>> THEN text
  ELSE LET d == CASE Head(marks).type = "strong" -> <<"*", "*">>
                  [] Head(marks).type = "em" -> <<"*">>
                  [] Head(marks).type = "code" -> <<Backtick>>
       IN Delimited(d \o text \o d, Tail(marks))

\* the text of the block without the marker of a heading
InlineOf(block, out) ==
  IF block.type = "heading" THEN Slice(out, block.attrs.level + 2, Len(out)) ELSE out

IsList(n) == n.type \in {"bullet_list", "ordered_list"}

\* the item has text of its own, or a list below it has an item that has
RECURSIVE ProducesText(_)
ProducesText(item) ==
  \E i \in 1..Len(item.content) :
     \/ item.content[i].type = "paragraph" /\ item.content[i].content # <<>>
     \/ /\ IsList(item.content[i])
        /\ \E j \in 1..Len(item.content[i].content) :
              ProducesText(item.content[i].content[j])

RECURSIVE SumOver(_, _, _)
SumOver(Op(_), seq, i) == IF i > Len(seq) THEN 0 ELSE Op(seq[i]) + SumOver(Op, seq, i + 1)

\* the number of items with text in the lists d levels below list
RECURSIVE ItemsAtDepth(_, _)
ItemsAtDepth(list, d) ==
  IF d = 0
  THEN Cardinality({i \in 1..Len(list.content) : ProducesText(list.content[i])})
  ELSE LET below(item) ==
             LET inItem(n) == IF IsList(n) THEN ItemsAtDepth(n, d - 1) ELSE 0
             IN SumOver(inItem, item.content, 1)
       IN SumOver(below, list.content, 1)

\* the line starts with exactly 2*d spaces followed by a list marker
IsItemLineAtDepth(line, d) ==
  /\ CountLead(line, " ") = 2 * d
  /\ Len(line) > 2 * d
  /\ (line[2 * d + 1] = "-" \/ IsDigit(line[2 * d + 1]))

\* C11: in the text serialized from a list, every item with text of a list
\* nested d levels below the top-level list has a line that starts with
\* exactly 2*d spaces followed by its marker, whatever the parent items hold
C11_NestedIndentation ==
  (Len(outs) >= 1 /\ Len(docs[1].content) = 1 /\ IsList(docs[1].content[1])) =>
    LET lines == Split(outs[1])
    IN \A d \in 1..MaxDepth :
         Cardinality({i \in 1..Len(lines) : IsItemLineAtDepth(lines[i], d)})
           = ItemsAtDepth(docs[1].content[1], d)

\* ------------------------------------------------------------------------
\* Fenced blocks
\* ------------------------------------------------------------------------

\* the first line after line f that begins with a fence (Len(lines)+1 when
\* there is none)
RECURSIVE ClosingFence(_, _)
ClosingFence(lines, f) ==
  IF f + 1 > Len(lines) THEN Len(lines) + 1
  ELSE IF StartsWithFence(Trim(lines[f + 1])) THEN f + 1
  ELSE ClosingFence(lines, f + 1)

\* C12: when parseMarkdown has returned for a text with a fence-open line,
\* the doc is valid and the lines after the fence-open line, up to the next
\* line that begins with a fence or to the end of the text, are the text of
\* one code_block, character for character
C12_FenceAbsorbsVerbatim ==
  (/\ pc = "tree"
   /\ CurrentText.kind = "string"
   /\ CurrentText.s # <<>>
   /\ LinesBeforeFence(Split(CurrentText.s)) < Len(Split(CurrentText.s))) =>
    LET lines == Split(CurrentText.s)
        f == LinesBeforeFence(lines) + 1
        e == ClosingFence(lines, f)
        absorbed == Join(SubSeq(lines, f + 1, e - 1))
        blocks == docs[Len(docs)].content
    IN /\ ValidNode(docs[Len(docs)])
       /\ Len(blocks) >= f
       /\ blocks[f].type = "code_block"
       /\ TextContent(blocks[f].content) = absorbed

\* ------------------------------------------------------------------------
\* The input rules
\* ------------------------------------------------------------------------

RuleNames == {createInputRules[i] : i \in 1..Len(createInputRules)}

\* the text the rules were matched against at the last keystroke: the text
\* before the caret (the last 500 characters of it) with the typed character
TextBefore == TextBeforeCaret(handled.before, handled.text)

MatchingInputRules(t) == {r \in RuleNames : RuleMatch(r, t) > 0}

\* the place of a rule in the order heading, list, code fence, blockquote,
\* mark, link, horizontal rule, arrow substitutions, task list
PriorityOf(rule) ==
  CASE rule = "heading" -> 1
    [] rule \in {"bullet_list", "ordered_list"} -> 2
    [] rule = "code_block" -> 3
    [] rule = "blockquote" -> 4
    [] rule \in {"strong_star", "strong_underscore", "em_star", "em_underscore", "code"} -> 5
    [] rule \in {"link", "autolink"} -> 6
    [] rule = "horizontal_rule" -> 7
    [] rule \in {"right_arrow", "left_arrow", "banana"} -> 8
    [] rule = "task_list" -> 9

StructuralRules ==
  {"heading", "bullet_list", "ordered_list", "code_block", "blockquote",
   "horizontal_rule", "task_list"}

IsFirstMatching(rule, t) ==
  /\ rule \in MatchingInputRules(t)
  /\ \A r \in MatchingInputRules(t) : PriorityOf(rule) <= PriorityOf(r)

\* the block of the caret is the first child of a list item or task item
FirstInItem(v) ==
  /\ v.path[Len(v.path)].type \in {"list_item", "task_list_item"}
  /\ v.path[Len(v.path)].before = <<>>

\* C13 as stated: on a keystroke the rule that fires is the first rule, in
\* the order heading, list, code fence, blockquote, mark, link, horizontal
\* rule, arrow, task list, whose pattern matches the text before the caret
\* with the typed character, and what happens depends on that order and
\* that text alone: a rule fires exactly when a pattern matches
C13_OutcomeByOrderAndText ==
  handled.kind = "key" =>
    /\ handled.rule # "none" => IsFirstMatching(handled.rule, TextBefore)
    /\ handled.rule = "none" <=> MatchingInputRules(TextBefore) = {}

\* C13: on a keystroke at most one rule fires, the doc after it is the doc
\* of that rule's transaction alone, and the rule is the first in the
\* declared order whose pattern matches the text before the caret with the
\* typed character; when a pattern matches and no rule fires, the caret is
\* in a code block, or only structural rules match and the block is a
\* heading or the first child of a list item
C13_FirstMatchingRuleFires ==
  handled.kind = "key" =>
    LET t == TextBefore
        before == handled.before
    IN /\ handled.rule # "none" =>
            /\ IsFirstMatching(handled.rule, t)
            /\ view = RuleTransaction(handled.rule, before, handled.text).view
       /\ (handled.rule = "none" /\ MatchingInputRules(t) # {}) =>
            \/ before.block.type = "code_block"
            \/ /\ MatchingInputRules(t) \subseteq StructuralRules
               /\ FirstInItem(before) \/ before.block.type = "heading"

\* a mark rule has fired on a text that the auto-link pattern matches too
C13_Witness ==
  /\ handled.kind = "key"
  /\ handled.rule = "em_star"
  /\ "autolink" \in MatchingInputRules(TextBefore)

\* the keys of a fence with the language js, and the space that ends it
FenceKeys == <<Backtick, Backtick, Backtick, "j", "s", " ">>

IsPrefixOf(t, full) == Len(t) <= Len(full) /\ SubSeq(full, 1, Len(t)) = t

\* the last key was one of the keys of FenceKeys, typed in that order from
\* the start of an empty paragraph
TypingFence ==
  /\ handled.kind = "key"
  /\ handled.before.block.type = "paragraph"
  /\ IsPrefixOf(TextBefore, FenceKeys)

\* what the six keys are to lead to: none of the first five fires a rule
\* and each is inserted as typed, the sixth fires the fence rule and leaves
\* a code block with the language js and no text where the paragraph was
FenceOutcome ==
  IF TextBefore = FenceKeys
  THEN /\ handled.rule = "code_block"
       /\ view = [handled.before EXCEPT
                    !.block = [type |-> "code_block", attrs |-> [language |-> <<"j", "s">>]],
                    !.chars = <<>>]
  ELSE /\ handled.rule = "none"
       /\ view.path = handled.before.path
       /\ view.block = handled.before.block
       /\ TextOf(view.chars) = TextBefore

\* C14 as stated: typing the six keys of a fence with js one at a time at
\* the start of an empty paragraph ends with the block being a code block
\* with the language js and no text, and no rule fires before the fence
\* rule does
C14_FenceInAnyParagraph == TypingFence => FenceOutcome

\* C14: the same for an empty paragraph whose parent can hold a code block
\* in its place: a top-level paragraph, one in a blockquote, or one that is
\* not the first child of a list item
C14_FenceTyped ==
  (TypingFence /\ AcceptsBlock(handled.before.path[Len(handled.before.path)]))
    => FenceOutcome

\* the sixth key has been typed and the block is a code block
C14_Witness ==
  /\ TypingFence
  /\ TextBefore = FenceKeys
  /\ dispatched = Len(FenceKeys)
  /\ ViewDoc(view) =
       Node("doc", NoAttrs, <<Node("code_block", [language |-> <<"j", "s">>], <<>>)>>)

MarkRules == {"strong_star", "strong_underscore", "em_star", "em_underscore", "code"}

\* the mark of a mark rule and the width of its delimiter
MarkOfRule(rule) ==
  CASE rule \in {"strong_star", "strong_underscore"} -> "strong"
    [] rule \in {"em_star", "em_underscore"} -> "em"
    [] rule = "code" -> "code"

DelimiterWidth(rule) == IF rule \in {"strong_star", "strong_underscore"} THEN 2 ELSE 1

HasMark(char, type) == \E i \in 1..Len(char.marks) : char.marks[i].type = type

\* C15: when a mark rule fires on the closing delimiter, the block holds,
\* where the match started, the enclosed text without the two delimiters,
\* every character of it with the mark of the rule; the characters before
\* the match keep their text and marks, the block keeps its type and its
\* place, and the keystroke has dispatched one transaction
C15_MarkRuleResult ==
  (handled.kind = "key" /\ handled.rule \in MarkRules) =>
    LET match == SubSeq(TextBefore, RuleMatch(handled.rule, TextBefore), Len(TextBefore))
        start == Len(handled.before.chars) + 2 - Len(match)
        width == DelimiterWidth(handled.rule)
        enclosed == SubSeq(match, 1 + width, Len(match) - width)
    IN /\ Len(view.chars) = start - 1 + Len(enclosed)
       /\ \A i \in 1..(start - 1) : view.chars[i] = handled.before.chars[i]
       /\ \A i \in 1..Len(enclosed) :
             /\ view.chars[start - 1 + i].c = enclosed[i]
             /\ HasMark(view.chars[start - 1 + i], MarkOfRule(handled.rule))
       /\ view.path = handled.before.path
       /\ view.block = handled.before.block
       /\ dispatched = handled.dispatched + 1

\* a strong rule has fired after other text of the block
C15_Witness ==
  /\ handled.kind = "key"
  /\ handled.rule \in {"strong_star", "strong_underscore"}
  /\ RuleMatch(handled.rule, TextBefore) > 1
  /\ Len(view.chars) > 1
  /\ HasMark(view.chars[Len(view.chars)], "strong")

\* the block of the caret has its type, attributes and ancestors of before
\* the last event, and its text of before with the text of the event added
OnlyTextInserted ==
  /\ view.path = handled.before.path
  /\ view.block = handled.before.block
  /\ TextOf(view.chars) = TextOf(handled.before.chars) \o handled.text
  /\ \A i \in 1..Len(handled.before.chars) : view.chars[i] = handled.before.chars[i]

TextPrecedes(chars, n) ==
  \E k \in 1..(Len(chars) - n) : ~IsWs(chars[k].c)

\* C17: a structural rule (heading, bullet list, ordered list, code fence,
\* blockquote, horizontal rule, task list) fires only on a match that starts
\* at the first character of the block: when text other than white space
\* stands in the block before the typed trigger, none of them fires
C17_StructuralRulesAtBlockStart ==
  (handled.kind = "key" /\ handled.rule \in StructuralRules) =>
    LET match == SubSeq(TextBefore, RuleMatch(handled.rule, TextBefore), Len(TextBefore))
    IN /\ Len(match) = Len(handled.before.chars) + 1
       /\ ~TextPrecedes(handled.before.chars, Len(match) - 1)

\* ------------------------------------------------------------------------
\* Paragraph lines and blank lines
\* ------------------------------------------------------------------------

IsBlankLine(line) == Trim(line) = <<>>

\* every line is blank or plain text
PlainLinesOnly(lines) ==
  \A i \in 1..Len(lines) : IsBlankLine(lines[i]) \/ IsPlainText(lines[i])

\* what a line of PlainLinesOnly is to keep: nothing when blank, else itself
KeptText(line) == IF IsBlankLine(line) THEN <<>> ELSE line

\* C18: for an input whose lines are all plain text or blank, the doc has
\* one paragraph for each line, empty for a blank line and else with the
\* line as its text, untrimmed and with its inner white space, and the
\* string serialized from it has as many lines, blank where the input is
\* blank and else equal to the input's line
C18_PlainLinesPreserved ==
  (/\ Len(outs) >= 1
   /\ input.kind = "string"
   /\ input.s # <<>>
   /\ PlainLinesOnly(Split(input.s))) =>
    LET lines == Split(input.s)
        blocks == docs[1].content
        out == Split(outs[1])
    IN /\ Len(blocks) = Len(lines)
       /\ \A i \in 1..Len(lines) :
             /\ blocks[i].type = "paragraph"
             /\ TextContent(blocks[i].content) = KeptText(lines[i])
       /\ Len(out) = Len(lines)
       /\ \A i \in 1..Len(lines) : out[i] = KeptText(lines[i])

\* ------------------------------------------------------------------------
\* The separators of the serializer
\* ------------------------------------------------------------------------

\* a top-level node is emitted when it is a paragraph or its rendering is
\* not empty
IsEmitted(node) == node.type = "paragraph" \/ NodeMarkdown(node) # <<>>

\* C19: the string serialized from a doc is the renderings of its emitted
\* top-level nodes joined by one line break each; a node that is not
\* emitted adds no character, no line break either
C19_OmittedNodeAddsNothing ==
  Len(outs) >= 1 =>
    LET emitted == SelectSeq(docs[1].content, IsEmitted)
    IN outs[1] = Join([i \in 1..Len(emitted) |-> NodeMarkdown(emitted[i])])

\* ------------------------------------------------------------------------
\* The numbers of ordered lists
\* ------------------------------------------------------------------------

\* the numbers that stand before a full stop in a text, in their order
RECURSIVE NumbersIn(_, _)
NumbersIn(text, i) ==
  IF i > Len(text) THEN <<>>
  ELSE IF ~IsDigit(text[i]) THEN NumbersIn(text, i + 1)
  ELSE LET j == SkipDigits(text, i)
       IN IF j <= Len(text) /\ text[j] = "."
          THEN <<NumberOf(SubSeq(text, i, j - 1))>> \o NumbersIn(text, j + 1)
          ELSE NumbersIn(text, j)

\* the numbers the items of a list and of the lists below it are to have,
\* in the order of the doc: the k-th item with text of an ordered list has
\* the list's order attribute + k - 1, an item without text has none
RECURSIVE NumbersFrom(_, _, _)
RECURSIVE NumbersBelow(_, _)
NumbersFrom(list, i, k) ==
  IF i > Len(list.content) THEN <<>>
  ELSE IF ProducesText(list.content[i])
  THEN (IF list.type = "ordered_list" THEN <<list.attrs.order + k - 1>> ELSE <<>>)
       \o NumbersBelow(list.content[i].content, 1)
       \o NumbersFrom(list, i + 1, k + 1)
  ELSE NumbersFrom(list, i + 1, k)

NumbersBelow(children, j) ==
  IF j > Len(children) THEN <<>>
  ELSE (IF IsList(children[j]) THEN NumbersFrom(children[j], 1, 1) ELSE <<>>)
       \o NumbersBelow(children, j + 1)

\* C20: in the text serialized from a list, the k-th item with text of
\* every ordered list, at the top level or below a list item, has the
\* number start + k - 1, start being the order attribute of its list; an
\* item without text has no number and takes none
C20_OrderedNumbering ==
  (Len(outs) >= 1 /\ Len(docs[1].content) = 1 /\ IsList(docs[1].content[1])) =>
    NumbersIn(outs[1], 1) = NumbersFrom(docs[1].content[1], 1, 1)


\* ------------------------------------------------------------------------
\* Nodes and marks without a rendering rule
\* ------------------------------------------------------------------------

\* the marks that nodeToText has a delimiter for
RenderedMarks(marks) ==
  SelectSeq(marks, LAMBDA m : m.type \in {"strong", "em", "code"})

\* the line a top-level node of ForeignChoices stands for: a paragraph is its
\* text inside the delimiters of the marks that have one, a node of another
\* type is its flattened text, or nothing when that text is blank
ExpectedLine(node) ==
  IF node.type = "paragraph"
  THEN IF node.content = <<>> THEN <<>>
       ELSE Delimited(node.content[1].text, RenderedMarks(node.content[1].marks))
  ELSE IF Trim(TextContent(node.content)) = <<>> THEN <<>>
       ELSE TextContent(node.content)

C26_AutoLinkKeepsTypedCharacter ==
  (handled.kind = "key" /\ handled.rule = "autolink") =>
    LET start == WindowStart(handled.before.chars) + AutoLinkRuleMatch(TextBefore)
    IN /\ TextOf(view.chars) = TextOf(handled.before.chars) \o handled.text
       /\ \A i \in start..Len(view.chars) : HasMark(view.chars[i], "link")


\* ------------------------------------------------------------------------
\* The shortcut registry
\* ------------------------------------------------------------------------

\* a registry without one id
Without(registry, shortcutId) ==
  [id \in DOMAIN registry \ {shortcutId} |-> registry[id]]

\* C23: removeShortcut returns false and leaves the registry as it was when
\* the id is absent or its entry is a default shortcut, and returns true
\* with that one entry deleted otherwise; addShortcut returns false and
\* leaves the registry as it was when the id is registered; after any
\* sequence of the two every default shortcut is registered with the
\* definition of DEFAULT_SHORTCUTS
C23_AddRemoveKeepDefaults ==
  /\ outcome.op = "removeShortcut" =>
        IF outcome.id \notin DOMAIN outcome.before \/ outcome.before[outcome.id].isDefault
        THEN ~outcome.returned /\ Registry = outcome.before
        ELSE outcome.returned /\ Registry = Without(outcome.before, outcome.id)
  /\ (outcome.op = "addShortcut" /\ outcome.id \in DOMAIN outcome.before) =>
        ~outcome.returned /\ Registry = outcome.before
  /\ \A id \in DefaultIds :
        id \in DOMAIN shortcuts /\ ShortcutAt(id) = DefaultShortcutsLiteral[id]

\* removeShortcut('toggleBold') has been refused while a custom shortcut
\* is registered
C23_Witness ==
  /\ outcome.op = "removeShortcut"
  /\ outcome.id = "toggleBold"
  /\ ~outcome.returned
  /\ "customCommand" \in DOMAIN shortcuts

\* C24: executeShortcut returns false and calls no command when the id is
\* unknown, the shortcut is disabled or its command is not registered;
\* otherwise it calls the command once, returns its result (false when it
\* throws) and calls every registered listener once with the id and that
\* result; a listener whose cleanup function ran is not registered
C24_ExecuteShortcutOutcome ==
  /\ outcome.op = "executeShortcut" =>
        LET id == outcome.id
            before == outcome.before
            runnable == /\ id \in DOMAIN before
                        /\ before[id].enabled
                        /\ before[id].command \in registerDefaultCommands
        IN IF ~runnable THEN ~outcome.returned /\ outcome.invoked = <<>>
           ELSE /\ Len(outcome.invoked) = 1
                /\ outcome.invoked[1].command = before[id].command
                /\ outcome.returned = (outcome.invoked[1].result = "true")
                /\ outcome.notified =
                      [i \in 1..Len(outcome.listeners) |->
                         [callback |-> outcome.listeners[i], id |-> id,
                          success |-> outcome.returned]]
  /\ \A i \in 1..Len(eventCallbacks) : eventCallbacks[i] \notin cleaned

\* C25: after resetToDefaults the registry is the record DEFAULT_SHORTCUTS
\* as DefaultShortcuts.ts defines it, ids, keys, commands and flags,
\* whatever calls of addShortcut, updateShortcut, removeShortcut and
\* importConfiguration came before
C25_ResetRestoresDefaults ==
  outcome.op = "resetToDefaults" => Registry = DefaultShortcutsLiteral

\* a reset of a registry in which updateShortcut had disabled toggleBold
\* and a custom shortcut was registered
C25_Witness ==
  /\ outcome.op = "resetToDefaults"
  /\ "customCommand" \in DOMAIN outcome.before
  /\ "toggleBold" \in DOMAIN outcome.before
  /\ outcome.before["toggleBold"] =
        Merge(DefaultShortcutsLiteral["toggleBold"], [enabled |-> FALSE])


\* ------------------------------------------------------------------------
\* The order of the dispatched transactions
\* ------------------------------------------------------------------------

\* C22: the transactions handed to a dispatch function are applied in the
\* order they were handed over, each at most once, and once no timeout is
\* pending each has been applied: none is dropped
C22_AppliedOnceInOrder ==
  /\ \A i, j \in 1..Len(applied) : i < j => applied[i] < applied[j]
  /\ timeouts = <<>> => applied = [i \in 1..Len(transactions) |-> i]


\* ------------------------------------------------------------------------
\* The storage service
\* ------------------------------------------------------------------------

Settled(n) == n <= Len(calls) /\ calls[n].pc \in {"resolved", "rejected"}

\* C27: every save or load queued as a background operation settles in the
\* end, resolved with the result of an attempt or rejected after
\* maxRetries retries, also when it fails at first and nothing is queued
\* after it
C27_BackgroundOperationsSettle ==
  \A n \in 1..MaxCalls :
    [](n <= Len(calls) /\ calls[n].background => <>Settled(n))

\* C28: a load that returns an item returns the content of a completed
\* save as it was handed to save, from the cache or from the database,
\* compressed in between or not
C28_LoadReturnsSavedContent ==
  \A n \in 1..Len(calls) :
    (calls[n].type = "load" /\ calls[n].pc = "resolved" /\ calls[n].result # <<>>) =>
      \E i \in 1..Len(written) :
        calls[n].result[1].content = decompress(written[i].content)

\* C29: the stored version is the number of completed saves and the stored
\* creation time is that of the first completed save
C29_VersionCountsSaves ==
  documents # <<>> =>
    /\ documents[1].version = Len(written)
    /\ documents[1].created = written[1].created


\* ------------------------------------------------------------------------
\* Auto-save
\* ------------------------------------------------------------------------

IsPersisted(change) == \E i \in 1..Len(persisted) : persisted[i] = change

====
